---- MODULE Spec2Model ----
(***************************************************************************)
(* Shared torch timers (room-wide variant, src/unnamed/part_000 1-563).    *)
(*                                                                         *)
(* One room metadata blob holds the flat list of timers.  Every client     *)
(* keeps a view (rows) refreshed from the blob, a map of the remaining     *)
(* time it last observed per timer key, and a set of handled event ids.    *)
(* Writes are read-modify-write cycles in two halves (readRoomTimers, then *)
(* setMetadata) with no lock.                                              *)
(*                                                                         *)
(* Optional fields (startAt?, pausedAt?, offsetMs?) are None (= <<>>) or   *)
(* Some(n) (= <<n>>).  Strings built by template literals are modelled as  *)
(* tuples of their parts: ids and numbers contain no ':' so the join is    *)
(* injective on them.                                                      *)
(***************************************************************************)
EXTENDS Integers, Sequences, FiniteSets, TLC

VARIABLES
    clock,      \* Date.now()
    store,      \* room metadata under META_KEY: the flat list of RoomTimer
    nextId,     \* number of ids newId() has handed out
    opCount,    \* number of user actions invoked so far
    advances,   \* number of clock advances so far
    writes,     \* writeRoomTimers calls in flight
    dirty,      \* per client: a metadata change callback is pending
    rows,       \* per client: PlayerRow[] state
    prev,       \* per client: prevRemainingRef.current
    handled,    \* per client: handledEventIdsRef.current
    inbox,      \* per client: broadcast messages in flight to it
    shown,      \* per client: notifications shown, counted per event id
    fireCount,  \* per client: times the detector fired, per timer key
    zeroSince,  \* per client: keys fired for whose remaining stayed 0 since
    fireLog,    \* every detector firing: client, event id, timer record
    quiet,      \* keys a detector has visited again, still at 0, after firing
    sawBurning, \* per client: timer keys the detector visited with time left
    invoked,    \* the kinds of user action invoked so far
    flagged,    \* scene: the IMAGE items whose metadata holds DYN_LIGHT_KEY
    lastMeta,   \* per client: lastMeta, as the images last seen with the key
    sceneEvents,\* per client: scene.items.onChange callbacks pending, as snapshots
    lastItems,  \* per client: the snapshot its onChange handler was last called with
    mounted,    \* the clients whose App is mounted: interval and listeners in place
    fnList,     \* one participant alone: the stored list
    fnNow,      \* one participant alone: Date.now()
    fnCall,     \* one participant alone: the writeRoomTimers call in flight
    fnHist      \* one participant alone: the calls completed, in order

vars == <<clock, store, nextId, opCount, advances, writes, dirty, rows, prev,
          handled, inbox, shown, fireCount, zeroSince, fireLog, quiet,
          sawBurning, invoked, flagged, lastMeta, sceneEvents, lastItems,
          mounted, fnList, fnNow, fnCall, fnHist>>

sysVars == <<clock, store, nextId, opCount, advances, writes, dirty, rows, prev,
             handled, inbox, shown, fireCount, zeroSince, fireLog, quiet,
             sawBurning, invoked, flagged, lastMeta, sceneEvents, lastItems,
             mounted>>

fnVars == <<fnList, fnNow, fnCall, fnHist>>

sceneVars == <<flagged, lastMeta, sceneEvents, lastItems>>

----------------------------------------------------------------------------
(* Bounds of the model *)

MaxOps == 1         \* user actions (Set, Start, Pause, Delete) per behaviour
MaxAdvances == 2    \* clock advances per behaviour
MaxFnOps == 2       \* calls completed by the participant acting alone
MaxFnAdvances == 2  \* clock advances while the participant acts alone

(* Program constants *)

TickMs == 500               \* setInterval period
MsPerSecond == 1000

(* Model values *)

T0 == 1000                  \* Date.now() when the session starts
Steps == {MsPerSecond}      \* the clock moves one second at a time

Clients == {"p1", "p2"}     \* OBR.player.id of each connected participant
Actors == {"p1"}            \* the participants who press the buttons
Players == Clients \cup {"p3"}
\* OBR.player.getName(): p3 has cleared the name field
PlayerName == [c \in Players |->
                 IF c = "p1" THEN "Ann" ELSE IF c = "p2" THEN "Bea" ELSE ""]
InputMinutes == {0}
InputSeconds == {1}
InputNames == {"Torch"}
IdPool == <<"t1", "t2", "t3", "t4", "t5", "t6", "t7", "t8", "t9", "t10",
           "t11", "t12">>

NoString == "<undefined>"   \* an absent optional string field

----------------------------------------------------------------------------
(* Optional numbers *)

None == <<>>
Some(n) == <<n>>
IsTruthy(o) == o # None /\ o[1] # 0         \* JS truthiness of number|undefined
OrElse(o, d) == IF o = None THEN d ELSE o[1]   \* o ?? d
StrTruthy(s) == s # NoString /\ s # ""      \* JS truthiness of string|undefined

Max(a, b) == IF a >= b THEN a ELSE b
Min(a, b) == IF a <= b THEN a ELSE b

----------------------------------------------------------------------------
(* Time utilities *)

\* mutant: the running segment is counted backwards
getElapsedBackwards(s, now) ==
    LET base == OrElse(s.offsetMs, 0)
    IN  IF IsTruthy(s.startAt) /\ ~IsTruthy(s.pausedAt)
        THEN base + (s.startAt[1] - now)
        ELSE base

getElapsed(s, now) ==
    LET base == OrElse(s.offsetMs, 0)
    IN  IF IsTruthy(s.startAt) /\ ~IsTruthy(s.pausedAt)
        THEN base + (now - s.startAt[1])
        ELSE base

\* mutant: the Math.max(0, ...) clamp is dropped
getRemainingNoClamp(s, now) == s.durationMs - getElapsed(s, now)

getRemaining(s, now) == Max(0, s.durationMs - getElapsed(s, now))

isRunning(s, now) ==
    IsTruthy(s.startAt) /\ ~IsTruthy(s.pausedAt) /\ getRemaining(s, now) > 0

\* mutant: the generator repeats itself
newIdStuck(n) == IdPool[1]

newId(n) == IdPool[n + 1]

----------------------------------------------------------------------------
(* Room metadata helpers *)

\* mutant: every record is given a new id
withIdFresh(list, i, n) ==
    [list |-> [k \in 1..Len(list) |-> [list[k] EXCEPT !.id = newId(n + k - 1)]],
     n |-> n + Len(list)]

RECURSIVE withIdFrom(_, _, _)
\* raw.map((t) => ({ ...t, id: t.id || newId() }))
\* from position i on, n ids handed out so far; yields the list and the new n.
withIdFrom(list, i, n) ==
    IF i > Len(list) THEN [list |-> list, n |-> n]
    ELSE LET t == list[i]
             needId == ~StrTruthy(t.id)
             t2 == [t EXCEPT !.id = IF needId THEN newId(n) ELSE t.id]
         IN  withIdFrom([list EXCEPT ![i] = t2], i + 1,
                        IF needId THEN n + 1 ELSE n)

\* t.ownerName || "Player"
ownerLabel(t) == IF StrTruthy(t.ownerName) THEN t.ownerName ELSE "Player"

\* .map((t) => ({ ...t, id: t.id || newId(), ownerName: t.ownerName || "Player" }))
normalize(list, n) ==
    LET ids == withIdFrom(list, 1, n)
    IN  [list |-> [i \in 1..Len(list) |->
                      [ids.list[i] EXCEPT !.ownerName = ownerLabel(list[i])]],
         n |-> ids.n]

\* the list readRoomTimers returns for a stored list of well-typed records
readRoomTimers(blob, n) == withIdFrom(blob, 1, n).list

\* mutant: the updater's result is persisted as it is
writeRoomTimersRaw(updated, n) == [list |-> updated, n |-> n]

\* the list writeRoomTimers persists for what the updater returned
writeRoomTimers(updated, n) == normalize(updated, n)

----------------------------------------------------------------------------
(* Manual controls: the updaters handed to writeRoomTimers *)

\* mutant: an expired timer is resumed, its banked time kept
startTimerNoReset(t, startedAt, now) ==
    IF isRunning(t, now) THEN t
    ELSE [t EXCEPT !.startAt = Some(startedAt), !.pausedAt = None]

\* mutant: a resumed timer keeps its pause stamp
startTimerKeepsPause(t, startedAt, now) ==
    IF isRunning(t, now) THEN t
    ELSE IF getRemaining(t, now) <= 0
         THEN [t EXCEPT !.offsetMs = Some(0), !.pausedAt = None,
                        !.startAt = Some(startedAt)]
         ELSE [t EXCEPT !.startAt = Some(startedAt)]

\* mutant: the isRunning guard is dropped
startTimerNoGuard(t, startedAt, now) ==
    IF getRemaining(t, now) <= 0
    THEN [t EXCEPT !.offsetMs = Some(0), !.pausedAt = None,
                   !.startAt = Some(startedAt)]
    ELSE [t EXCEPT !.startAt = Some(startedAt), !.pausedAt = None]

\* start: startedAt was read before the store read, now is the updater's clock
startTimer(t, startedAt, now) ==
    IF isRunning(t, now) THEN t
    ELSE IF getRemaining(t, now) <= 0
         THEN [t EXCEPT !.offsetMs = Some(0), !.pausedAt = None,
                        !.startAt = Some(startedAt)]
         ELSE [t EXCEPT !.startAt = Some(startedAt), !.pausedAt = None]

start(list, startedAt, now) ==
    [i \in 1..Len(list) |-> startTimer(list[i], startedAt, now)]

\* mutant: the running segment is not banked
pauseTimerNoBank(t, at, now) ==
    [t EXCEPT !.pausedAt = Some(at), !.offsetMs = Some(OrElse(t.offsetMs, 0)),
              !.startAt = None]

\* mutant: startAt is left in place
pauseTimerKeepStart(t, at, now) ==
    [t EXCEPT !.pausedAt = Some(at), !.offsetMs = Some(getElapsed(t, now))]

\* mutant: the time spent paused is banked as well
pauseTimerCountsPause(t, at, now) ==
    [t EXCEPT !.pausedAt = Some(at),
              !.offsetMs = Some(getElapsed(t, now)
                                + (IF IsTruthy(t.pausedAt)
                                   THEN at - t.pausedAt[1] ELSE 0)),
              !.startAt = None]

pauseTimer(t, at, now) ==
    [t EXCEPT !.pausedAt = Some(at), !.offsetMs = Some(getElapsed(t, now)),
              !.startAt = None]

pause(list, at, now) ==
    [i \in 1..Len(list) |-> pauseTimer(list[i], at, now)]

\* mutant: no floor of one second
totalSecondsUnfloored(mins, secs) ==
    LET m == Max(0, mins)
        s == Max(0, Min(59, secs))
    IN  m * 60 + s

totalSecondsOf(mins, secs) ==
    LET m == Max(0, mins)
        s == Max(0, Min(59, secs))
    IN  Max(1, m * 60 + s)

\* (name ?? "").trim() || undefined
trim(name) == IF name = " Lamp " THEN "Lamp" ELSE name
trimmedName(name) == IF trim(name) = "" THEN NoString ELSE trim(name)

newTimer(id, mins, secs, name, ownerId, ownerName, now) ==
    [id |-> id,
     name |-> trimmedName(name),
     durationMs |-> totalSecondsOf(mins, secs) * MsPerSecond,
     offsetMs |-> Some(0),
     pausedAt |-> None,
     startAt |-> Some(now),
     ownerId |-> ownerId,
     ownerName |-> ownerName,
     lightId |-> ""]

\* mutant: the new timer is put first
setDurationFirst(list, id, mins, secs, name, ownerId, ownerName, now) ==
    <<newTimer(id, mins, secs, name, ownerId, ownerName, now)>> \o list

setDuration(list, id, mins, secs, name, ownerId, ownerName, now) ==
    Append(list, newTimer(id, mins, secs, name, ownerId, ownerName, now))

\* mutant: the filter is inverted
deleteTorchKeepsMatch(list, torchId) ==
    SelectSeq(list, LAMBDA t : t.id = torchId)

deleteTorch(list, torchId) == SelectSeq(list, LAMBDA t : t.id # torchId)

----------------------------------------------------------------------------
(* Dynamic-fog watcher: the updaters handed to writeRoomTimers *)

\* Math.max(1, Math.floor(m) * 60 + Math.min(59, Math.max(0, Math.floor(s))))
imageSecondsOf(mins, secs) == Max(1, mins * 60 + Min(59, Max(0, secs)))

\* (name ?? "").trim() || "Light"
lightName(name) == IF trim(name) = "" THEN "Light" ELSE trim(name)

\* the record ensureTimerForImage appends; it carries no ownerId
lightTimer(id, mins, secs, name, imageId, now) ==
    [id |-> id,
     name |-> lightName(name),
     durationMs |-> imageSecondsOf(mins, secs) * MsPerSecond,
     offsetMs |-> Some(0),
     pausedAt |-> None,
     startAt |-> Some(now),
     ownerId |-> NoString,
     ownerName |-> "Player",
     lightId |-> imageId]

\* mutant: no look-up of an existing timer for the image
ensureTimerAlways(list, id, mins, secs, name, imageId, now) ==
    Append(list, lightTimer(id, mins, secs, name, imageId, now))

\* the updater of ensureTimerForImage
ensureTimerForImage(list, id, mins, secs, name, imageId, now) ==
    IF \E i \in 1..Len(list) : list[i].lightId = imageId THEN list
    ELSE Append(list, lightTimer(id, mins, secs, name, imageId, now))

\* the updater of removeTimersForImage
\* mutant: every timer linked to a light goes, whichever image it is
removeTimersForAnyImage(list, imageId) ==
    SelectSeq(list, LAMBDA t : t.lightId = "")

removeTimersForImage(list, imageId) ==
    SelectSeq(list, LAMBDA t : t.lightId # imageId)

----------------------------------------------------------------------------
(* refresh: the per-owner rows of a client *)

nameKey(ownerName) ==
    CASE ownerName = "Ann" -> "name:Ann"
      [] ownerName = "Bea" -> "name:Bea"
      [] ownerName = "Player" -> "name:Player"
      [] ownerName = "" -> "name:"
      [] OTHER -> "name:?"

\* mutant: the owner's label is the key, whether or not ownerId is there
ownerKeyByName(t) == nameKey(t.ownerName)

ownerKeyOf(t) == IF t.ownerId # NoString THEN t.ownerId ELSE nameKey(t.ownerName)

\* party = the other players; nameById.get(t.ownerId) ?? t.ownerName
displayNameOf(t, self) ==
    IF StrTruthy(t.ownerId)
    THEN IF t.ownerId \in Clients \ {self} THEN PlayerName[t.ownerId]
         ELSE t.ownerName
    ELSE t.ownerName

rowIndex(rs, key) ==
    IF \E i \in 1..Len(rs) : rs[i].id = key
    THEN CHOOSE i \in 1..Len(rs) : rs[i].id = key
    ELSE 0

RECURSIVE groupFrom(_, _, _, _)
groupFrom(timers, i, rs, self) ==
    IF i > Len(timers) THEN rs
    ELSE LET t == timers[i]
             key == ownerKeyOf(t)
             dn == displayNameOf(t, self)
             j == rowIndex(rs, key)
             rs2 == IF j = 0
                    THEN Append(rs, [id |-> key, name |-> dn,
                                     torches |-> <<t>>, isSelf |-> TRUE])
                    ELSE [rs EXCEPT ![j].name = dn,
                                    ![j].torches = Append(@, t)]
         IN  groupFrom(timers, i + 1, rs2, self)

refresh(timers, self) ==
    LET rs == groupFrom(timers, 1, <<>>, self)
    IN  IF Len(rs) = 0
        THEN <<[id |-> self, name |-> PlayerName[self], torches |-> <<>>,
                isSelf |-> TRUE]>>
        ELSE rs

RECURSIVE flattenRows(_, _)
\* the (row, torch) pairs in the order the detector visits them
flattenRows(rs, i) ==
    IF i > Len(rs) THEN <<>>
    ELSE [k \in 1..Len(rs[i].torches) |->
             [pid |-> rs[i].id, pname |-> rs[i].name, torch |-> rs[i].torches[k]]]
         \o flattenRows(rs, i + 1)

----------------------------------------------------------------------------
(* Cross-zero detector *)

Put(f, k, v) == (k :> v) @@ f
CountOf(f, k) == IF k \in DOMAIN f THEN f[k] ELSE 0

\* `${p.id}:${torch.id ?? idx}` (a RoomTimer always has an id)
timerKey(pid, torch) == <<pid, torch.id>>

\* mutant: the id carries the clock of the detecting tick, not the start time
eventIdOfTick(pid, torch, now) ==
    <<pid, torch.id, torch.durationMs, now, OrElse(torch.offsetMs, 0)>>

\* `${p.id}:${torch.id ?? idx}:${torch.durationMs}:${torch.startAt ?? 0}:${torch.offsetMs ?? 0}`
eventIdOf(pid, torch, now) ==
    <<pid, torch.id, torch.durationMs, OrElse(torch.startAt, 0),
      OrElse(torch.offsetMs, 0)>>

\* mutant: a remaining of exactly 0 does not count as crossed
crossedBelowZero(prevRem, rem) == prevRem > 0 /\ rem < 0

crossedToZero(prevRem, rem) == prevRem > 0 /\ rem <= 0

\* mutant: a paused timer counts as active too
wasActiveAlways(torch) == TRUE

wasActive(torch) == IsTruthy(torch.startAt) /\ ~IsTruthy(torch.pausedAt)

\* mutant: the visit that fires returns before prev[key] is written
recordRemainingUnlessFired(prevMap, key, rem, fired) ==
    IF fired THEN prevMap ELSE Put(prevMap, key, rem)

\* prev[key] = rem, at the end of every visit
recordRemaining(prevMap, key, rem, fired) == Put(prevMap, key, rem)

\* mutant: the id is not added
markHandledNever(handledSet, eventId) == handledSet

\* handledEventIdsRef.current.add(eventId)
markHandled(handledSet, eventId) == handledSet \cup {eventId}

\* One visit of the forEach body.  st carries the two refs and what the visit
\* emitted: notes (notification + broadcast + cascade) and fired (every visit
\* on which crossedToZero && wasActive held).
detectOne(st, it, now) ==
    LET torch == it.torch
        rem == getRemaining(torch, now)
        key == timerKey(it.pid, torch)
        prevRem == IF key \in DOMAIN st.prev THEN st.prev[key] ELSE rem
        fire == crossedToZero(prevRem, rem) /\ wasActive(torch)
        eventId == eventIdOf(it.pid, torch, now)
        fresh == fire /\ eventId \notin st.handled
    IN  [prev |-> recordRemaining(st.prev, key, rem, fire),
         handled |-> IF fresh THEN markHandled(st.handled, eventId)
                     ELSE st.handled,
         notes |-> IF fresh
                   THEN Append(st.notes,
                               [id |-> eventId, name |-> it.pname,
                                playerId |-> it.pid, timerName |-> torch.name,
                                torchId |-> torch.id, lightId |-> torch.lightId])
                   ELSE st.notes,
         fired |-> IF fire
                   THEN Append(st.fired, [key |-> key, id |-> eventId,
                                          torch |-> torch, pid |-> it.pid])
                   ELSE st.fired,
         zero |-> IF fire THEN st.zero \cup {key}
                  ELSE IF rem > 0 THEN st.zero \ {key} ELSE st.zero,
         quiet |-> IF ~fire /\ rem <= 0 /\ key \in st.zero
                   THEN st.quiet \cup {key} ELSE st.quiet,
         saw |-> IF rem > 0 THEN st.saw \cup {key} ELSE st.saw]

RECURSIVE detectFrom(_, _, _, _)
detectFrom(st, items, i, now) ==
    IF i > Len(items) THEN st
    ELSE detectFrom(detectOne(st, items[i], now), items, i + 1, now)

detect(c, rs, now) ==
    detectFrom([prev |-> prev[c], handled |-> handled[c], notes |-> <<>>,
                fired |-> <<>>, zero |-> zeroSince[c], quiet |-> quiet,
                saw |-> sawBurning[c]],
               flattenRows(rs, 1), 1, now)

RECURSIVE CountAll(_, _, _)
\* f with the count of every ks[i] raised by one
CountAll(f, ks, i) ==
    IF i > Len(ks) THEN f
    ELSE CountAll(Put(f, ks[i], CountOf(f, ks[i]) + 1), ks, i + 1)

Range(q) == {q[i] : i \in 1..Len(q)}
RemoveAt(q, i) == [k \in 1..(Len(q) - 1) |-> IF k < i THEN q[k] ELSE q[k + 1]]

\* a writeRoomTimers call in flight
WriteOp(c, op, at, torchId, mins, secs, name) ==
    [client |-> c, op |-> op, at |-> at, torchId |-> torchId, mins |-> mins,
     secs |-> secs, name |-> name, imageId |-> "", phase |-> "read",
     next |-> <<>>]

\* the async cascade: writeRoomTimers(prev => prev.filter(t => t.id !== torch.id))
\* preceded, for a timer linked to an image, by removeDynamicLightFlag
cascadeOf(c, note) ==
    [WriteOp(c, "expire", 0, note.torchId, 0, 0, "") EXCEPT
        !.imageId = IF StrTruthy(note.lightId) THEN note.lightId ELSE "",
        !.phase = IF StrTruthy(note.lightId) THEN "unflag" ELSE "read"]

alertOf(note) ==
    [id |-> note.id, name |-> note.name, playerId |-> note.playerId,
     timerName |-> note.timerName]

\* The effect on [rows, tick] of client c, over rows rs at the current clock.
RunDetector(c, rs) ==
    LET r == detect(c, rs, clock)
    IN  /\ prev' = [prev EXCEPT ![c] = r.prev]
        /\ handled' = [handled EXCEPT ![c] = r.handled]
        /\ shown' = [shown EXCEPT
                       ![c] = CountAll(@, [i \in 1..Len(r.notes) |-> r.notes[i].id], 1)]
        /\ inbox' = [d \in Clients |->
                       IF d = c THEN inbox[d]
                       ELSE inbox[d] \cup {alertOf(n) : n \in Range(r.notes)}]
        /\ writes' = writes \o [i \in 1..Len(r.notes) |-> cascadeOf(c, r.notes[i])]
        /\ fireCount' = [fireCount EXCEPT
                           ![c] = CountAll(@, [i \in 1..Len(r.fired) |-> r.fired[i].key], 1)]
        /\ zeroSince' = [zeroSince EXCEPT ![c] = r.zero]
        /\ quiet' = r.quiet
        /\ sawBurning' = [sawBurning EXCEPT ![c] = r.saw]
        /\ fireLog' = fireLog \cup
                        {[client |-> c, id |-> e.id, torch |-> e.torch,
                          pid |-> e.pid] : e \in Range(r.fired)}

----------------------------------------------------------------------------
(* The session: clients, the room metadata and the broadcast channel *)

EmptyMap == [k \in {} |-> 0]

\* What the room may hold when the session starts: nothing, a timer another
\* participant has just set, or a timer paused half way.
burningTimer == newTimer(newId(0), 0, 1, "Torch", "p2", "Bea", T0)
pausedTimer == pauseTimer(newTimer(newId(0), 0, 1, "", "p2", "Bea", T0 - TickMs),
                          T0, T0)
InitialStores == {<<>>, <<burningTimer>>, <<pausedTimer>>}

\* every client has mounted and its first refresh() is pending
Mounted ==
    /\ clock = T0
    /\ opCount = 0
    /\ advances = 0
    /\ writes = <<>>
    /\ dirty = [c \in Clients |-> TRUE]        \* the refresh() of the mount
    /\ rows = [c \in Clients |-> <<>>]
    /\ prev = [c \in Clients |-> EmptyMap]
    /\ handled = [c \in Clients |-> {}]
    /\ inbox = [c \in Clients |-> {}]
    /\ shown = [c \in Clients |-> EmptyMap]
    /\ fireCount = [c \in Clients |-> EmptyMap]
    /\ zeroSince = [c \in Clients |-> {}]
    /\ fireLog = {}
    /\ quiet = {}
    /\ sawBurning = [c \in Clients |-> {}]
    /\ invoked = {}
    /\ mounted = Clients

\* no image of the scene carries a light, no scene callback is pending
SceneIdle ==
    /\ flagged = {}
    /\ lastMeta = [c \in Clients |-> {}]
    /\ sceneEvents = [c \in Clients |-> <<>>]
    /\ lastItems = [c \in Clients |-> <<>>]

SysInit ==
    /\ Mounted
    /\ SceneIdle
    /\ store \in InitialStores
    /\ nextId = Len(store)

FnIdle ==
    /\ fnList = <<>>
    /\ fnNow = 0
    /\ fnCall = <<>>
    /\ fnHist = <<>>

Init == SysInit /\ FnIdle

CanInvoke == opCount < MaxOps

Invoke(w) ==
    /\ CanInvoke
    /\ w.client \in mounted
    /\ opCount' = opCount + 1
    /\ writes' = Append(writes, w)
    /\ invoked' = invoked \cup {w.op}
    /\ UNCHANGED <<clock, store, nextId, advances, dirty, rows, prev, handled,
                   inbox, shown, fireCount, zeroSince, fireLog, quiet,
                   sawBurning, mounted, fnVars, sceneVars>>

\* onStart
Start(c) == Invoke(WriteOp(c, "start", clock, "", 0, 0, ""))

\* onPause
Pause(c) == Invoke(WriteOp(c, "pause", clock, "", 0, 0, ""))

\* onSetDuration: Set with the minutes/seconds/name inputs
SetDuration(c, mins, secs, name) ==
    Invoke(WriteOp(c, "set", clock, "", mins, secs, name))

\* the delete button of a timer the client displays
DeleteTorch(c, i) ==
    LET items == flattenRows(rows[c], 1)
    IN  /\ i \in 1..Len(items)
        /\ Invoke(WriteOp(c, "delete", clock, items[i].torch.id, 0, 0, ""))

\* what the updater of call w returns for the list it was handed
updated(w, list, now) ==
    CASE w.op = "start" -> start(list, w.at, now)
      [] w.op = "pause" -> pause(list, w.at, now)
      [] w.op = "set" -> setDuration(list, newId(nextId), w.mins, w.secs, w.name,
                                     w.client, PlayerName[w.client], now)
      [] w.op = "ensure" -> ensureTimerForImage(list, newId(nextId), w.mins,
                                                w.secs, w.name, w.imageId, now)
      [] w.op = "remove" -> removeTimersForImage(list, w.imageId)
      [] OTHER -> deleteTorch(list, w.torchId)

\* ids handed out once the updater of call w has run: it calls newId() when
\* it appends a record
idsAfter(w, list) ==
    IF Len(updated(w, list, clock)) > Len(list) THEN nextId + 1 ELSE nextId

\* first half of writeRoomTimers: the read resolves, the updater and the
\* normalising map run
WriteRead(i) ==
    /\ i \in 1..Len(writes)
    /\ writes[i].phase = "read"
    /\ LET w == writes[i]
           list == readRoomTimers(store, nextId)
           out == writeRoomTimers(updated(w, list, clock), idsAfter(w, list))
       IN  /\ writes' = [writes EXCEPT ![i].phase = "write",
                                       ![i].next = out.list]
           /\ nextId' = out.n
    /\ UNCHANGED <<clock, store, opCount, advances, dirty, rows, prev, handled,
                   inbox, shown, fireCount, zeroSince, fireLog, quiet,
                   sawBurning, invoked, mounted, fnVars, sceneVars>>

\* lastMeta.set(it.id, next) once the awaited watcher call w has returned
seenAfter(w, seen) ==
    CASE w.op = "ensure" -> seen \cup {w.imageId}
      [] w.op = "remove" -> seen \ {w.imageId}
      [] OTHER -> seen

\* mutant: what others stored since the read is kept
WriteCommitMerging(i) ==
    /\ i \in 1..Len(writes)
    /\ writes[i].phase = "write"
    /\ store' = writes[i].next \o
                  SelectSeq(store, LAMBDA t :
                      \A k \in 1..Len(writes[i].next) : writes[i].next[k].id # t.id)
    /\ writes' = RemoveAt(writes, i)
    /\ dirty' = [c \in Clients |-> TRUE]
    /\ lastMeta' = [lastMeta EXCEPT ![writes[i].client] = seenAfter(writes[i], @)]
    /\ UNCHANGED <<clock, nextId, opCount, advances, rows, prev, handled,
                   inbox, shown, fireCount, zeroSince, fireLog, quiet,
                   sawBurning, invoked, flagged, sceneEvents, lastItems,
                   mounted, fnVars>>

\* second half: OBR.room.setMetadata({ [META_KEY]: next }); every client's
\* onMetadataChange callback becomes pending
WriteCommit(i) ==
    /\ i \in 1..Len(writes)
    /\ writes[i].phase = "write"
    /\ store' = writes[i].next
    /\ writes' = RemoveAt(writes, i)
    /\ dirty' = [c \in Clients |-> TRUE]
    /\ lastMeta' = [lastMeta EXCEPT ![writes[i].client] = seenAfter(writes[i], @)]
    /\ UNCHANGED <<clock, nextId, opCount, advances, rows, prev, handled,
                   inbox, shown, fireCount, zeroSince, fireLog, quiet,
                   sawBurning, invoked, flagged, sceneEvents, lastItems,
                   mounted, fnVars>>

\* mutant: clearInterval is left out of the cleanup
pollingForever(c) == TRUE

\* the interval of the base effect runs until its cleanup: clearInterval(t)
polling(c) == c \in mounted

\* the listeners registered by the effects are called until the cleanups have
\* run: offParty(), offRoom(), offOpen(), offBroadcast(), offItems()
listening(c) == c \in mounted

\* refresh() from onMetadataChange (or the mount), then the effect on rows
Refresh(c) ==
    /\ listening(c)
    /\ dirty[c]
    /\ dirty' = [dirty EXCEPT ![c] = FALSE]
    /\ rows' = [rows EXCEPT ![c] = refresh(readRoomTimers(store, nextId), c)]
    /\ RunDetector(c, rows'[c])
    /\ UNCHANGED <<clock, store, nextId, opCount, advances, invoked, mounted, fnVars, sceneVars>>

\* setInterval(() => setTick(x => x + 1), 500), then the effect on tick
Tick(c) ==
    /\ polling(c)
    /\ RunDetector(c, rows[c])
    /\ UNCHANGED <<clock, store, nextId, opCount, advances, dirty, rows,
                   invoked, mounted, fnVars, sceneVars>>

\* the broadcast.onMessage handler
onAlert(c, m) ==
    IF m.id \in handled[c]
    THEN UNCHANGED <<handled, shown>>
    ELSE /\ handled' = [handled EXCEPT ![c] = markHandled(@, m.id)]
         /\ shown' = [shown EXCEPT ![c] = Put(@, m.id, CountOf(@, m.id) + 1)]

\* a message reaches client c.  The channel is best effort: a message may
\* never be delivered, and may be delivered again later (it stays in flight).
Deliver(c, m) ==
    /\ listening(c)
    /\ m \in inbox[c]
    /\ onAlert(c, m)
    /\ UNCHANGED <<inbox, clock, store, nextId, opCount, advances, writes,
                   dirty, rows, prev, fireCount, zeroSince, fireLog, quiet,
                   sawBurning, invoked, mounted, fnVars, sceneVars>>

Advance(d) ==
    /\ advances < MaxAdvances
    /\ advances' = advances + 1
    /\ clock' = clock + d
    /\ UNCHANGED <<store, nextId, opCount, writes, dirty, rows, prev, handled,
                   inbox, shown, fireCount, zeroSince, fireLog, quiet,
                   sawBurning, invoked, mounted, fnVars, sceneVars>>

Next ==
    \/ \E c \in Actors : Start(c)
    \/ \E c \in Actors : Pause(c)
    \/ \E c \in Actors, mins \in InputMinutes, secs \in InputSeconds,
          name \in InputNames : SetDuration(c, mins, secs, name)
    \/ \E c \in Actors, i \in 1..(MaxOps + 1) : DeleteTorch(c, i)
    \/ \E i \in 1..Len(writes) : WriteRead(i)
    \/ \E i \in 1..Len(writes) : WriteCommit(i)
    \/ \E c \in Clients : Refresh(c)
    \/ \E c \in Clients : Tick(c)
    \/ \E c \in Clients : \E m \in inbox[c] : Deliver(c, m)
    \/ \E d \in Steps : Advance(d)

Spec == Init /\ [][Next]_vars

----------------------------------------------------------------------------
(* The room with its scene: every client presses buttons and runs the      *)
(* dynamic-fog watcher; the scene holds one IMAGE item.                    *)

MaxRoomOps == 1
MaxRoomAdvances == 1
Images == {"img1"}
RoomInputs == {<<0, 0, "">>}        \* minutes, seconds, name of inputsRef
RoomDetectors == {"p1"}             \* the clients whose panel is polling

\* the timer p1's watcher made for the image before p2 joined
litTimer == lightTimer(newId(0), 0, 0, "", "img1", T0)

\* What the room and the scene may hold when the session starts: nothing, a
\* timer set by hand, or a lit image with its timer.
RoomInit ==
    /\ Mounted
    /\ FnIdle
    /\ sceneEvents = [c \in Clients |-> <<>>]
    /\ \/ /\ store \in {<<>>, <<burningTimer>>}
          /\ flagged = {}
          /\ lastMeta = [c \in Clients |-> {}]
          /\ lastItems = [c \in Clients |-> <<>>]
       \/ /\ store = <<litTimer>>
          /\ flagged = {"img1"}
          /\ lastMeta = [c \in Clients |-> IF c = "p1" THEN {"img1"} ELSE {}]
          /\ lastItems = [c \in Clients |-> IF c = "p1" THEN <<{"img1"}>> ELSE <<>>]
    /\ nextId = Len(store)

RoomAdvance(d) == advances < MaxRoomAdvances /\ Advance(d)

RoomCanInvoke == opCount < MaxRoomOps

RoomInvoke(w) ==
    /\ RoomCanInvoke
    /\ w.client \in mounted
    /\ opCount' = opCount + 1
    /\ writes' = Append(writes, w)
    /\ invoked' = invoked \cup {w.op}
    /\ UNCHANGED <<clock, store, nextId, advances, dirty, rows, prev, handled,
                   inbox, shown, fireCount, zeroSince, fireLog, quiet,
                   sawBurning, mounted, fnVars, sceneVars>>

RoomStart(c) == RoomInvoke(WriteOp(c, "start", clock, "", 0, 0, ""))
RoomPause(c) == RoomInvoke(WriteOp(c, "pause", clock, "", 0, 0, ""))
RoomSet(c, mins, secs, name) ==
    RoomInvoke(WriteOp(c, "set", clock, "", mins, secs, name))
RoomDelete(c, i) ==
    LET items == flattenRows(rows[c], 1)
    IN  /\ i \in 1..Len(items)
        /\ RoomInvoke(WriteOp(c, "delete", clock, items[i].torch.id, 0, 0, ""))

\* the scene changes: every client's scene.items.onChange is called with the
\* items as they are now
sceneChanged(lit) ==
    /\ flagged' = lit
    /\ sceneEvents' = [c \in Clients |-> Append(sceneEvents[c], lit)]

\* somebody attaches a dynamic-fog light to the image
AddLight(img) ==
    /\ img \notin flagged
    /\ opCount' = opCount + 1
    /\ sceneChanged(flagged \cup {img})
    /\ UNCHANGED <<clock, store, nextId, advances, writes, dirty, rows, prev,
                   handled, inbox, shown, fireCount, zeroSince, fireLog, quiet,
                   sawBurning, invoked, lastMeta, lastItems, mounted, fnVars>>

\* somebody removes the light from the image
RemoveLight(img) ==
    /\ img \in flagged
    /\ opCount' = opCount + 1
    /\ sceneChanged(flagged \ {img})
    /\ UNCHANGED <<clock, store, nextId, advances, writes, dirty, rows, prev,
                   handled, inbox, shown, fireCount, zeroSince, fireLog, quiet,
                   sawBurning, invoked, lastMeta, lastItems, mounted, fnVars>>

\* a watcher call in flight: ensureTimerForImage or removeTimersForImage
SceneOp(c, op, img, in) ==
    [WriteOp(c, op, 0, "", in[1], in[2], in[3]) EXCEPT !.imageId = img]

\* the scene.items.onChange handler of client c, for the image: diffMeta of
\* lastMeta against the snapshot, then the awaited call; lastMeta is set when
\* that call returns
onChange(c, img, in) ==
    /\ listening(c)
    /\ sceneEvents[c] # <<>>
    /\ sceneEvents' = [sceneEvents EXCEPT ![c] = Tail(@)]
    /\ lastItems' = [lastItems EXCEPT ![c] = <<Head(sceneEvents[c])>>]
    /\ LET next == img \in Head(sceneEvents[c])
           before == img \in lastMeta[c]
       IN  writes' = IF next /\ ~before
                     THEN Append(writes, SceneOp(c, "ensure", img, in))
                     ELSE IF before /\ ~next
                     THEN Append(writes, SceneOp(c, "remove", img, in))
                     ELSE writes
    /\ UNCHANGED <<clock, store, nextId, opCount, advances, dirty, rows, prev,
                   handled, inbox, shown, fireCount, zeroSince, fireLog, quiet,
                   sawBurning, invoked, flagged, lastMeta, mounted, fnVars>>

\* removeDynamicLightFlag of an auto-deletion: updateItems deletes the key
Unflag(i) ==
    /\ i \in 1..Len(writes)
    /\ writes[i].phase = "unflag"
    /\ writes' = [writes EXCEPT ![i].phase = "read"]
    /\ IF writes[i].imageId \in flagged
       THEN sceneChanged(flagged \ {writes[i].imageId})
       ELSE UNCHANGED <<flagged, sceneEvents>>
    /\ UNCHANGED <<clock, store, nextId, opCount, advances, dirty, rows, prev,
                   handled, inbox, shown, fireCount, zeroSince, fireLog, quiet,
                   sawBurning, invoked, lastMeta, lastItems, mounted, fnVars>>

\* mutant: the rejection is not caught and the async block ends there
UnflagAborts(i) ==
    /\ i \in 1..Len(writes)
    /\ writes[i].phase = "unflag"
    /\ writes' = RemoveAt(writes, i)
    /\ UNCHANGED <<clock, store, nextId, opCount, advances, dirty, rows, prev,
                   handled, inbox, shown, fireCount, zeroSince, fireLog, quiet,
                   sawBurning, invoked, sceneVars, mounted, fnVars>>

\* removeDynamicLightFlag of an auto-deletion: updateItems rejects (the image
\* is gone, the player may not edit it); catch { /* noop */ } and the block
\* goes on to writeRoomTimers
UnflagFails(i) ==
    /\ i \in 1..Len(writes)
    /\ writes[i].phase = "unflag"
    /\ writes' = [writes EXCEPT ![i].phase = "read"]
    /\ UNCHANGED <<clock, store, nextId, opCount, advances, dirty, rows, prev,
                   handled, inbox, shown, fireCount, zeroSince, fireLog, quiet,
                   sawBurning, invoked, sceneVars, mounted, fnVars>>

\* mutant: a rejected setMetadata has stored the first part of the list
WriteFailsHalfWritten(i) ==
    /\ i \in 1..Len(writes)
    /\ writes[i].phase \in {"read", "write"}
    /\ writes' = RemoveAt(writes, i)
    /\ store' = IF writes[i].phase = "write"
                THEN SubSeq(writes[i].next, 1, Len(writes[i].next) - 1)
                ELSE store
    /\ UNCHANGED <<clock, nextId, opCount, advances, dirty, rows, prev,
                   handled, inbox, shown, fireCount, zeroSince, fireLog, quiet,
                   sawBurning, invoked, sceneVars, mounted, fnVars>>

\* OBR.room.getMetadata() or OBR.room.setMetadata() of a writeRoomTimers call
\* rejects: the promise of the call rejects, nothing is stored; the caller
\* (a button handler, the watcher, the detector's async block) catches
\* nothing and does nothing more
WriteFails(i) ==
    /\ i \in 1..Len(writes)
    /\ writes[i].phase \in {"read", "write"}
    /\ writes' = RemoveAt(writes, i)
    /\ UNCHANGED <<clock, store, nextId, opCount, advances, dirty, rows, prev,
                   handled, inbox, shown, fireCount, zeroSince, fireLog, quiet,
                   sawBurning, invoked, sceneVars, mounted, fnVars>>

\* the App of client c is unmounted: the cleanups of the base effect and of
\* the scene watcher run one after the other, nothing in between
Unmount(c) ==
    /\ c \in mounted
    /\ mounted' = mounted \ {c}
    /\ UNCHANGED <<clock, store, nextId, opCount, advances, writes, dirty, rows,
                   prev, handled, inbox, shown, fireCount, zeroSince, fireLog,
                   quiet, sawBurning, invoked, sceneVars, fnVars>>

RoomNext ==
    \/ \E c \in Clients : RoomStart(c)
    \/ \E c \in Clients : RoomPause(c)
    \/ \E c \in Clients, in \in RoomInputs : RoomSet(c, in[1], in[2], in[3])
    \/ \E c \in Clients, i \in 1..(MaxRoomOps + 1) : RoomDelete(c, i)
    \/ \E img \in Images : RoomCanInvoke /\ AddLight(img)
    \/ \E img \in Images : RoomCanInvoke /\ RemoveLight(img)
    \/ \E c \in Clients, img \in Images, in \in RoomInputs : onChange(c, img, in)
    \/ \E i \in 1..Len(writes) : Unflag(i)
    \/ \E i \in 1..Len(writes) : UnflagFails(i)
    \/ \E i \in 1..Len(writes) : WriteRead(i)
    \/ \E i \in 1..Len(writes) : WriteCommit(i)
    \/ \E c \in RoomDetectors : Refresh(c)
    \/ \E c \in RoomDetectors : Tick(c)
    \/ \E d \in Steps : RoomAdvance(d)

SpecRoom == RoomInit /\ [][RoomNext]_vars

----------------------------------------------------------------------------
(* The scene watcher alone: lights put on and taken off the image, other   *)
(* changes of the scene, and the calls of the two clients' watchers.       *)

MaxSceneOps == 2

\* something else of the scene changes (an item is moved, renamed, added):
\* onChange is called with all the items, the image's metadata as it was
TouchScene ==
    /\ opCount' = opCount + 1
    /\ sceneChanged(flagged)
    /\ UNCHANGED <<clock, store, nextId, advances, writes, dirty, rows, prev,
                   handled, inbox, shown, fireCount, zeroSince, fireLog, quiet,
                   sawBurning, invoked, lastMeta, lastItems, mounted, fnVars>>

\* a timer whose image has since been deleted from the scene: no snapshot
\* holds the item any more, so nothing removes the timer
orphanTimer == lightTimer(newId(1), 0, 0, "", "img2", T0)
secondLitTimer == lightTimer(newId(2), 0, 0, "", "img1", T0)

\* p1 has been there from the start; p2 has just mounted and its watcher has
\* not been called yet.  The image is unlit, or lit with its timer, or lit
\* with its timer deleted by hand since.
SceneInit ==
    /\ Mounted
    /\ FnIdle
    /\ sceneEvents = [c \in Clients |-> <<>>]
    /\ nextId = 3
    /\ \/ /\ store = <<burningTimer, orphanTimer>>
          /\ flagged = {}
          /\ lastMeta = [c \in Clients |-> {}]
          /\ lastItems = [c \in Clients |-> IF c = "p1" THEN <<{}>> ELSE <<>>]
       \/ /\ store \in {<<burningTimer, orphanTimer, secondLitTimer>>,
                        <<burningTimer, orphanTimer>>}
          /\ flagged = {"img1"}
          /\ lastMeta = [c \in Clients |-> IF c = "p1" THEN {"img1"} ELSE {}]
          /\ lastItems = [c \in Clients |-> IF c = "p1" THEN <<{"img1"}>> ELSE <<>>]

SceneCanChange == opCount < MaxSceneOps

SceneNext ==
    \/ \E img \in Images : SceneCanChange /\ AddLight(img)
    \/ \E img \in Images : SceneCanChange /\ RemoveLight(img)
    \/ SceneCanChange /\ TouchScene
    \/ \E c \in Clients, img \in Images, in \in RoomInputs : onChange(c, img, in)
    \/ \E i \in 1..Len(writes) : WriteRead(i)
    \/ \E i \in 1..Len(writes) : WriteCommit(i)

SpecScene == SceneInit /\ [][SceneNext]_vars

\* the room with stores that fail and panels that close
FaultyNext ==
    \/ RoomNext
    \/ \E i \in 1..Len(writes) : WriteFails(i)
    \/ \E c \in Clients : Unmount(c)

SpecFaulty == RoomInit /\ [][FaultyNext]_vars

\* a writeRoomTimers call in flight takes its next step
WriteStep == \E i \in 1..Len(writes) : WriteRead(i) \/ WriteCommit(i)

\* the store answers: every getMetadata and setMetadata call completes
SpecLive == Spec /\ WF_vars(WriteStep)

----------------------------------------------------------------------------
(* One participant acting alone on a stored list.                          *)

FnActors == {"p1"}
FnSetters == {"p1", "p3"}
FnInputs == {<<1, 75, " Lamp ">>}     \* minutes, seconds, name
FnDeleteIds == {newId(0), "gone"}     \* a stored timer's id, an id no timer has

fnTimer(id, st, pa, off) ==
    [id |-> id, name |-> NoString, durationMs |-> MsPerSecond, offsetMs |-> off,
     pausedAt |-> pa, startAt |-> st, ownerId |-> "p2", ownerName |-> "Bea",
     lightId |-> ""]

\* The records start, pause and setDuration leave behind: burning since
\* startAt with offsetMs banked, or paused with offsetMs banked.
FnBurning(id) == {fnTimer(id, Some(st), None, Some(off)) :
                     st \in {T0 - 2 * TickMs, T0 - TickMs, T0}, off \in {0, 600}}
FnPaused(id) == {fnTimer(id, None, Some(T0 - 100), Some(off)) :
                    off \in {0, 600, 1500}}
FnStored(id) == FnBurning(id) \cup FnPaused(id)
FnSecond == {fnTimer(newId(1), None, Some(T0 - 100), Some(600)),
             fnTimer(newId(1), Some(T0 - 2 * TickMs), None, Some(0))}
FnLists == {<<t>> : t \in FnStored(newId(0))}
           \cup {<<t, u>> : t \in FnStored(newId(0)), u \in FnSecond}

\* Any record isRoomTimer accepts, with the non-empty id and owner label
\* writeRoomTimers leaves: startAt, pausedAt and offsetMs in combinations only
\* another client's clock or another writer could have produced.
AnyStartAts == {None, Some(0), Some(T0 - TickMs), Some(T0 + 200)}
AnyPausedAts == {None, Some(0), Some(T0 - 100)}
AnyOffsets == {None, Some(0 - 300), Some(0), Some(600), Some(1500)}
AnyLists == {<<fnTimer(newId(0), st, pa, off)>> :
                st \in AnyStartAts, pa \in AnyPausedAts, off \in AnyOffsets}

FnInitWith(lists) ==
    /\ Mounted
    /\ SceneIdle
    /\ store = <<>>
    /\ fnList \in lists
    /\ nextId = Len(fnList)
    /\ fnNow = T0
    /\ fnCall = <<>>
    /\ fnHist = <<>>

FnInit == FnInitWith(FnLists)
AnyInit == FnInitWith(AnyLists)

FnCanInvoke == fnCall = <<>> /\ Len(fnHist) < MaxFnOps

\* a button is pressed: the handler reads the clock and calls writeRoomTimers
FnInvoke(w) ==
    /\ FnCanInvoke
    /\ fnCall' = <<w>>
    /\ UNCHANGED <<sysVars, fnList, fnNow, fnHist>>

FnStart(c) == FnInvoke(WriteOp(c, "start", fnNow, "", 0, 0, ""))
FnPause(c) == FnInvoke(WriteOp(c, "pause", fnNow, "", 0, 0, ""))
FnSet(c, mins, secs, name) == FnInvoke(WriteOp(c, "set", fnNow, "", mins, secs, name))
FnDelete(c, torchId) == FnInvoke(WriteOp(c, "delete", fnNow, torchId, 0, 0, ""))

\* the store read resolves; updater, normalising map and setMetadata follow
FnRun ==
    /\ fnCall # <<>>
    /\ LET w == fnCall[1]
           list == readRoomTimers(fnList, nextId)
           out == writeRoomTimers(updated(w, list, fnNow), idsAfter(w, list))
       IN  /\ fnList' = out.list
           /\ nextId' = out.n
           /\ fnHist' = Append(fnHist, [op |-> w.op, client |-> w.client,
                                        at |-> w.at, now |-> fnNow,
                                        mins |-> w.mins, secs |-> w.secs,
                                        name |-> w.name,
                                        torchId |-> w.torchId,
                                        before |-> list, after |-> out.list])
    /\ fnCall' = <<>>
    /\ UNCHANGED <<clock, store, opCount, advances, writes, dirty, rows, prev,
                   handled, inbox, shown, fireCount, zeroSince, fireLog, quiet,
                   sawBurning, invoked, fnNow, sceneVars, mounted>>

FnAdvance ==
    /\ fnNow < T0 + MaxFnAdvances * TickMs
    /\ fnNow' = fnNow + TickMs
    /\ UNCHANGED <<sysVars, fnList, fnCall, fnHist>>

FnNext ==
    \/ \E c \in FnActors : FnStart(c)
    \/ \E c \in FnActors : FnPause(c)
    \/ \E c \in FnSetters, in \in FnInputs : FnSet(c, in[1], in[2], in[3])
    \/ \E c \in FnActors, torchId \in FnDeleteIds : FnDelete(c, torchId)
    \/ FnRun
    \/ FnAdvance

\* the participant alone, on a list this program wrote
SpecFn == FnInit /\ [][FnNext]_vars

\* the participant alone, on any well-typed list
SpecAny == AnyInit /\ [][FnNext]_vars

----------------------------------------------------------------------------
(* Reading a stored value back.  A value of the store is tagged with what   *)
(* typeof and Array.isArray say of it; fnList holds the stored value and    *)
(* fnHist the reads made of it.                                            *)

MaxReads == 3
DefaultDurationMs == 60 * 60 * MsPerSecond

JUndef == [type |-> "undefined", num |-> 0, str |-> ""]
JNum(n) == [type |-> "number", num |-> n, str |-> ""]
JStr(x) == [type |-> "string", num |-> 0, str |-> x]
JNull == [type |-> "null"]
JArray(items) == [type |-> "array", items |-> items]

\* an object with the fields of a timer
rawTimer(id, ownerName, durationMs) ==
    [type |-> "object", id |-> id, name |-> JStr("Torch"),
     durationMs |-> durationMs, startAt |-> JNum(T0), pausedAt |-> JUndef,
     offsetMs |-> JNum(0), ownerId |-> JUndef, ownerName |-> ownerName,
     lightId |-> JStr("")]

typeIs(j, ty) == j.type = ty
optional(j, ty) == j.type = "undefined" \/ j.type = ty

\* typeof value === "object" && value !== null, with fields to look at (an
\* array has none of a timer's fields and fails the durationMs test)
isObject(v) == v.type = "object"

\* mutant: only id, ownerName and durationMs are looked at
isRoomTimerLax(v) ==
    /\ isObject(v)
    /\ typeIs(v.id, "string")
    /\ typeIs(v.ownerName, "string")
    /\ typeIs(v.durationMs, "number")

isRoomTimer(v) ==
    /\ isObject(v)
    /\ typeIs(v.id, "string")
    /\ typeIs(v.ownerName, "string")
    /\ typeIs(v.durationMs, "number")
    /\ optional(v.startAt, "number")
    /\ optional(v.pausedAt, "number")
    /\ optional(v.offsetMs, "number")
    /\ optional(v.ownerId, "string")
    /\ optional(v.name, "string")
    /\ optional(v.lightId, "string")

isRoomTimerArray(v) ==
    v.type = "array" /\ \A i \in 1..Len(v.items) : isRoomTimer(v.items[i])

\* mutant: durationMs is not looked at
isTorchStateLax(v) ==
    /\ isObject(v)
    /\ optional(v.startAt, "number")
    /\ optional(v.pausedAt, "number")
    /\ optional(v.offsetMs, "number")
    /\ optional(v.id, "string")
    /\ optional(v.name, "string")

isTorchState(v) ==
    /\ isObject(v)
    /\ typeIs(v.durationMs, "number")
    /\ optional(v.startAt, "number")
    /\ optional(v.pausedAt, "number")
    /\ optional(v.offsetMs, "number")
    /\ optional(v.id, "string")
    /\ optional(v.name, "string")

isTorchArray(v) ==
    v.type = "array" /\ \A i \in 1..Len(v.items) : isTorchState(v.items[i])

strOf(j) == IF j.type = "string" THEN j.str ELSE NoString
numOf(j) == IF j.type = "number" THEN Some(j.num) ELSE None

\* the record a validated object is used as
typed(v) ==
    [id |-> strOf(v.id), name |-> strOf(v.name), durationMs |-> v.durationMs.num,
     offsetMs |-> numOf(v.offsetMs), pausedAt |-> numOf(v.pausedAt),
     startAt |-> numOf(v.startAt), ownerId |-> strOf(v.ownerId),
     ownerName |-> strOf(v.ownerName), lightId |-> strOf(v.lightId)]

typedItems(v) == [i \in 1..Len(v.items) |-> typed(v.items[i])]

DEFAULT ==
    [id |-> NoString, name |-> NoString, durationMs |-> DefaultDurationMs,
     offsetMs |-> Some(0), pausedAt |-> None, startAt |-> None,
     ownerId |-> NoString, ownerName |-> NoString, lightId |-> NoString]

\* mutant: the elements that pass the shape check are kept
readStoredFiltering(raw, n) ==
    IF raw.type = "array"
    THEN withIdFrom(typedItems(JArray(SelectSeq(raw.items, isRoomTimer))), 1, n)
    ELSE [list |-> <<>>, n |-> n]

\* readRoomTimers on the value stored under META_KEY, n ids handed out so far
readStored(raw, n) ==
    IF isRoomTimerArray(raw) THEN withIdFrom(typedItems(raw), 1, n)
    ELSE [list |-> <<>>, n |-> n]

\* the per-player variant: an array, a single legacy record, or the default
getTorchesFromMetadata(raw, n) ==
    IF isTorchArray(raw)
    THEN IF Len(raw.items) > 0 THEN withIdFrom(typedItems(raw), 1, n)
         ELSE withIdFrom(<<DEFAULT>>, 1, n)
    ELSE IF isTorchState(raw) THEN withIdFrom(<<typed(raw)>>, 1, n)
    ELSE withIdFrom(<<DEFAULT>>, 1, n)

goodTimer(id) == rawTimer(JStr(id), JStr("Bea"), JNum(MsPerSecond))
legacyTimer(id) == rawTimer(id, JUndef, JNum(MsPerSecond))
badTimer == rawTimer(JStr("a1"), JStr("Bea"), JStr("bad"))
noDuration == rawTimer(JStr("a1"), JStr("Bea"), JUndef)

\* the optional fields of a RoomTimer, and a record holding a string where
\* a number is expected or a number where a string is expected
NumberFields == {"startAt", "pausedAt", "offsetMs"}
StringFields == {"ownerId", "name", "lightId"}
mistyped(f) ==
    [goodTimer("a1") EXCEPT ![f] = IF f \in NumberFields THEN JStr("soon")
                                  ELSE JNum(7)]

\* a record of the room-wide list that has everything but an id
noId == rawTimer(JUndef, JStr("Bea"), JNum(MsPerSecond))

MistypedValues ==
    {JArray(<<goodTimer("a2"), mistyped(f)>>) : f \in NumberFields \cup StringFields}
IdlessValues == {JArray(<<noId>>), JArray(<<goodTimer("a1"), noId>>)}

\* what the store may hand back: lists written by this program, records
\* without an id, a single legacy record, and values of the wrong shape
StoredValues ==
    MistypedValues \cup IdlessValues \cup
    {JArray(<<>>), JArray(<<goodTimer("a1")>>),
     JArray(<<goodTimer("a1"), goodTimer("a2")>>),
     JArray(<<goodTimer("")>>), JArray(<<goodTimer("a1"), goodTimer("")>>),
     JArray(<<legacyTimer(JStr("a1")), legacyTimer(JStr("a2"))>>),
     JArray(<<legacyTimer(JUndef)>>),
     legacyTimer(JStr("a1")), legacyTimer(JUndef), goodTimer("a1"),
     badTimer, noDuration, JArray(<<badTimer>>),
     JArray(<<goodTimer("a1"), noDuration>>), JArray(<<JNull>>),
     JNull, JUndef, JStr("bad")}

ReadInit ==
    /\ Mounted
    /\ SceneIdle
    /\ store = <<>>
    /\ nextId = 0
    /\ fnList \in StoredValues
    /\ fnNow = T0
    /\ fnCall = <<>>
    /\ fnHist = <<>>

\* one read of the stored value; the value itself stays as it is
ReadAs(path, out) ==
    /\ Len(fnHist) < MaxReads
    /\ fnHist' = Append(fnHist, [path |-> path, result |-> out.list])
    /\ nextId' = out.n
    /\ UNCHANGED <<clock, store, opCount, advances, writes, dirty, rows, prev,
                   handled, inbox, shown, fireCount, zeroSince, fireLog, quiet,
                   sawBurning, invoked, sceneVars, mounted, fnList, fnNow, fnCall>>

ReadRoom == ReadAs("room", readStored(fnList, nextId))
ReadSelf == ReadAs("slot", getTorchesFromMetadata(fnList, nextId))

ReadNext == ReadRoom \/ ReadSelf

SpecRead == ReadInit /\ [][ReadNext]_vars

\* what setMetadata stores of a list: JSON leaves the undefined fields out
jsNum(o) == IF o = None THEN JUndef ELSE JNum(o[1])
jsStr(x) == IF x = NoString THEN JUndef ELSE JStr(x)
rawOf(t) ==
    [type |-> "object", id |-> jsStr(t.id), name |-> jsStr(t.name),
     durationMs |-> JNum(t.durationMs), startAt |-> jsNum(t.startAt),
     pausedAt |-> jsNum(t.pausedAt), offsetMs |-> jsNum(t.offsetMs),
     ownerId |-> jsStr(t.ownerId), ownerName |-> jsStr(t.ownerName),
     lightId |-> jsStr(t.lightId)]
storedAs(list) == JArray([i \in 1..Len(list) |-> rawOf(list[i])])

\* the buttons a participant may press over whatever the room holds
RewriteOps ==
    {WriteOp("p1", "start", T0, "", 0, 0, ""),
     WriteOp("p1", "pause", T0, "", 0, 0, ""),
     WriteOp("p1", "set", T0, "", 0, 1, "Torch"),
     WriteOp("p1", "delete", T0, "a2", 0, 0, "")}

\* one whole writeRoomTimers call over the stored value: readRoomTimers, the
\* updater, the normalising map, setMetadata
Rewrite(w) ==
    /\ Len(fnHist) < MaxReads
    /\ LET in == readStored(fnList, nextId)
           new == IF Len(updated(w, in.list, fnNow)) > Len(in.list)
                  THEN in.n + 1 ELSE in.n
           out == writeRoomTimers(updated(w, in.list, fnNow), new)
       IN  /\ fnList' = storedAs(out.list)
           /\ nextId' = out.n
           /\ fnHist' = Append(fnHist, [path |-> "write", op |-> w.op,
                                        before |-> fnList, result |-> in.list,
                                        after |-> fnList'])
    /\ UNCHANGED <<clock, store, opCount, advances, writes, dirty, rows, prev,
                   handled, inbox, shown, fireCount, zeroSince, fireLog, quiet,
                   sawBurning, invoked, sceneVars, mounted, fnNow, fnCall>>

RewriteNext == ReadRoom \/ \E w \in RewriteOps : Rewrite(w)

\* the stored values whose records, where the room-wide read accepts them,
\* all come with their ids
RewriteValues ==
    StoredValues \ {JArray(<<goodTimer("")>>),
                    JArray(<<goodTimer("a1"), goodTimer("")>>)}

RewriteInit ==
    /\ Mounted
    /\ SceneIdle
    /\ store = <<>>
    /\ nextId = 0
    /\ fnList \in RewriteValues
    /\ fnNow = T0
    /\ fnCall = <<>>
    /\ fnHist = <<>>

SpecRewrite == RewriteInit /\ [][RewriteNext]_vars

----------------------------------------------------------------------------
(* The text of a remaining time.  A string is the sequence of its           *)
(* characters; fnCall holds the argument of the call, fnHist its result.   *)

DigitChars == <<"0", "1", "2", "3", "4", "5", "6", "7", "8", "9">>

RECURSIVE toString(_)
\* Number.prototype.toString() of a natural number
toString(n) ==
    IF n < 10 THEN <<DigitChars[n + 1]>>
    ELSE toString(n \div 10) \o <<DigitChars[(n % 10) + 1]>>

RECURSIVE padStart(_, _, _)
padStart(str, len, ch) ==
    IF Len(str) >= len THEN str ELSE padStart(<<ch>> \o str, len, ch)

\* Math.ceil(a / b) for b > 0
ceil(a, b) == 0 - ((0 - a) \div b)

\* `${m}:${s.toString().padStart(2, "0")}` for total seconds
minutesSeconds(total) ==
    LET m == total \div 60
        s == total % 60
    IN  toString(m) \o <<":">> \o padStart(toString(s), 2, "0")

\* mutant: partial seconds are dropped
formatFloor(ms) == minutesSeconds(ms \div MsPerSecond)

format(ms) == minutesSeconds(ceil(ms, MsPerSecond))

\* remaining times to show: every half second and the millisecond after it up
\* to 65 s, just under a second, an hour and the millisecond after it
FormatInputs ==
    {k * TickMs + r : k \in 0..130, r \in {0, 1}}
        \cup {599, DefaultDurationMs, DefaultDurationMs + 1}

FormatInit ==
    /\ Mounted
    /\ SceneIdle
    /\ store = <<>>
    /\ nextId = 0
    /\ fnList = <<>>
    /\ fnNow = T0
    /\ fnCall \in {<<ms>> : ms \in FormatInputs}
    /\ fnHist = <<>>

\* the row is rendered: format(getRemaining(t))
Format ==
    /\ fnCall # <<>>
    /\ fnHist' = Append(fnHist, [ms |-> fnCall[1], text |-> format(fnCall[1])])
    /\ fnCall' = <<>>
    /\ UNCHANGED <<sysVars, fnList, fnNow>>

FormatNext == Format

SpecFormat == FormatInit /\ [][FormatNext]_vars

----------------------------------------------------------------------------
(* Claims about the cross-zero detector and the alerts *)

\* C1: across any sequence of polling ticks the detector of one client fires
\* at most once for one crossing: after the tick on which it fires for a timer
\* key, no later run of that client's detector on which the timer's remaining
\* has stayed 0 fires for that key.
C1_FiresOncePerCrossing ==
    [][\A c \in Clients : \A k \in zeroSince[c] :
          CountOf(fireCount'[c], k) = CountOf(fireCount[c], k)]_vars

\* one client alone has fired for a key, once, and has visited the timer
\* again since, still at 0
C1_Witness ==
    \E c \in Clients : \E k \in zeroSince[c] :
        /\ k \in quiet
        /\ fireCount[c][k] = 1
        /\ \A d \in Clients \ {c} : CountOf(fireCount[d], k) = 0

TimersShown(c) == flattenRows(rows[c], 1)
Untampered == invoked \cap {"start", "pause", "delete"} = {}

\* a tick of client c now would change nothing: c has ticked at this clock
HasTicked(c) ==
    LET r == detect(c, rows[c], clock)
    IN  r.prev = prev[c] /\ Len(r.fired) = 0

\* item it of client c is a one-second timer that has kept burning for 1100 ms
BurntOut(c, it) ==
    /\ it.torch.durationMs = MsPerSecond
    /\ wasActive(it.torch)
    /\ OrElse(it.torch.offsetMs, 0) = 0
    /\ Untampered
    /\ clock >= it.torch.startAt[1] + 1100
    /\ HasTicked(c)

OneCrossingReported(c, it) ==
    /\ CountOf(fireCount[c], timerKey(it.pid, it.torch)) = 1
    /\ getRemaining(it.torch, clock) = 0

\* C2 (amended): for a timer created with durationMs = 1000 that stays running
\* (no Pause, Start or Delete) and that the client's detector has visited
\* while time remained, once time has advanced by 1100 ms and the client has
\* ticked, the detector has reported exactly one crossing for that timer and
\* remaining(timer, now) = 0.
C2_OneCrossingAfterExpiry ==
    \A c \in Clients : \A i \in 1..Len(TimersShown(c)) :
        LET it == TimersShown(c)[i] IN
        (BurntOut(c, it) /\ timerKey(it.pid, it.torch) \in sawBurning[c])
           => OneCrossingReported(c, it)

\* C2 as stated: whenever the client first saw the timer.
C2_Original ==
    \A c \in Clients : \A i \in 1..Len(TimersShown(c)) :
        LET it == TimersShown(c)[i] IN
        BurntOut(c, it) => OneCrossingReported(c, it)

\* the acting client has set a timer, watched it burn and ticked after expiry
C2_Witness ==
    \E c \in Actors : \E i \in 1..Len(TimersShown(c)) :
        LET it == TimersShown(c)[i] IN
        /\ "set" \in invoked
        /\ it.torch.ownerId = c
        /\ BurntOut(c, it)
        /\ timerKey(it.pid, it.torch) \in sawBurning[c]
        /\ OneCrossingReported(c, it)

\* C3: on each client, for every event id, at most one notification is shown,
\* under every interleaving of local detection and broadcast receipt; an id in
\* the handled set stays there and shows nothing more, and a broadcast whose
\* id is already handled changes nothing of the client or the room.
C3_OneNotificationPerEvent ==
    [][\A c \in Clients :
          /\ \A ev \in DOMAIN shown'[c] : shown'[c][ev] <= 1
          /\ handled[c] \subseteq handled'[c]
          /\ \A ev \in handled[c] : CountOf(shown'[c], ev) = CountOf(shown[c], ev)
          /\ \A m \in inbox[c] :
                (Deliver(c, m) /\ m.id \in handled[c])
                   => UNCHANGED <<store, writes, rows, prev, handled, inbox, shown>>]_vars

\* a client has detected a crossing itself and has sent no broadcast for it:
\* the broadcast of the other client had reached it first, and it has shown
\* the one notification
C3_Witness ==
    \E c \in Clients : \E e \in fireLog :
        /\ e.client = c
        /\ \E m \in inbox[c] : m.id = e.id
        /\ \A d \in Clients \ {c} : \A m \in inbox[d] : m.id # e.id
        /\ e.id \in handled[c]
        /\ shown[c][e.id] = 1

\* what the claim says the id depends on
BurnOf(e) ==
    <<ownerKeyOf(e.torch), e.torch.id, e.torch.durationMs,
      OrElse(e.torch.startAt, 0), OrElse(e.torch.offsetMs, 0)>>

\* C4: the event id of a fired transition depends only on the owner key, timer
\* id, durationMs, startAt and offsetMs of the timer: firings with the same
\* five values (two clients detecting the same burn) carry the same id, and
\* firings that differ in one of them (two burns of one timer) different ids.
C4_EventIdOfBurn ==
    \A e1, e2 \in fireLog : (BurnOf(e1) = BurnOf(e2)) <=> (e1.id = e2.id)

\* both clients have fired for one burn, and one of them for a second burn of
\* the same timer after a Start
C4_Witness ==
    \E e1, e2, e3 \in fireLog :
        /\ e1.client # e2.client
        /\ BurnOf(e1) = BurnOf(e2)
        /\ e1.id = e2.id
        /\ "start" \in invoked
        /\ e3.torch.id = e1.torch.id
        /\ e3.torch.startAt # e1.torch.startAt
        /\ e3.id # e1.id

----------------------------------------------------------------------------
(* Claims about the time utilities and the updaters *)

HistIdx == 1..Len(fnHist)
PairIdx == 1..(Len(fnHist) - 1)
SameLength(h) == Len(h.after) = Len(h.before)
ProbeNows == {0, T0 - TickMs, T0 + 5 * TickMs}

\* C5: for every timer and every value of now, remaining(timer, now) >= 0,
\* whatever the stored startAt, pausedAt and offsetMs are.
C5_RemainingNeverNegative ==
    \A i \in 1..Len(fnList) : \A now \in ProbeNows \cup {fnNow} :
        getRemaining(fnList[i], now) >= 0

\* a call has completed and a stored timer has burnt past its duration
C5_Witness ==
    /\ Len(fnHist) >= 1
    /\ \E i \in 1..Len(fnList) :
          /\ fnList[i].durationMs - getElapsed(fnList[i], fnNow) < 0
          /\ getRemaining(fnList[i], fnNow) = 0

StartLeavesRunningAlone(h) ==
    /\ SameLength(h)
    /\ \A i \in 1..Len(h.before) :
          isRunning(h.before[i], h.now) =>
             /\ h.after[i].startAt = h.before[i].startAt
             /\ h.after[i].pausedAt = h.before[i].pausedAt
             /\ h.after[i].offsetMs = h.before[i].offsetMs

AllRunning(list, now) == \A i \in 1..Len(list) : isRunning(list[i], now)

\* C6 (amended): Start leaves every timer that is running when the updater
\* runs unchanged (startAt, pausedAt, offsetMs), and a second Start applied
\* while every timer of the list is still running gives the same list.
C6_StartIdempotentWhileRunning ==
    /\ \A k \in HistIdx : fnHist[k].op = "start" => StartLeavesRunningAlone(fnHist[k])
    /\ \A k \in PairIdx :
          (/\ fnHist[k].op = "start"
           /\ fnHist[k + 1].op = "start"
           /\ AllRunning(fnHist[k].after, fnHist[k + 1].now))
          => fnHist[k + 1].after = fnHist[k].after

\* C6 as stated: Start applied twice in a row (the second pressed and run at
\* the clock at which the first completed) gives the same list as once.
C6_Original ==
    /\ \A k \in HistIdx : fnHist[k].op = "start" => StartLeavesRunningAlone(fnHist[k])
    /\ \A k \in PairIdx :
          (/\ fnHist[k].op = "start"
           /\ fnHist[k + 1].op = "start"
           /\ fnHist[k + 1].at = fnHist[k].now
           /\ fnHist[k + 1].now = fnHist[k].now)
          => fnHist[k + 1].after = fnHist[k].after

\* two Starts in a row over a list that held a running and a stopped timer
C6_Witness ==
    \E k \in PairIdx :
        /\ fnHist[k].op = "start"
        /\ fnHist[k + 1].op = "start"
        /\ \E i \in 1..Len(fnHist[k].before) : isRunning(fnHist[k].before[i], fnHist[k].now)
        /\ \E i \in 1..Len(fnHist[k].before) : ~isRunning(fnHist[k].before[i], fnHist[k].now)
        /\ AllRunning(fnHist[k].after, fnHist[k + 1].now)

\* C7: Start resets each non-running timer whose remaining is 0 (offsetMs = 0,
\* pausedAt unset, startAt = now) and resumes each non-running timer whose
\* remaining is positive (startAt = now, pausedAt unset, offsetMs unchanged);
\* now is the clock Start read when it was pressed, and running and remaining
\* are taken at that clock or at the clock of the updater.
C7_StartResetsOrResumes ==
    \A k \in HistIdx :
        LET h == fnHist[k] IN
        h.op = "start" =>
           /\ SameLength(h)
           /\ \A i \in 1..Len(h.before) : \A tm \in {h.at, h.now} :
                 LET b == h.before[i] IN
                 ~isRunning(b, tm) =>
                    h.after[i] =
                       IF getRemaining(b, tm) = 0
                       THEN [b EXCEPT !.offsetMs = Some(0), !.pausedAt = None,
                                      !.startAt = Some(h.at)]
                       ELSE [b EXCEPT !.startAt = Some(h.at), !.pausedAt = None]

\* Start ran over one expired timer and one paused timer with time left
C7_Witness ==
    \E k \in HistIdx :
        LET h == fnHist[k] IN
        /\ h.op = "start"
        /\ \E i, j \in 1..Len(h.before) :
              /\ ~isRunning(h.before[i], h.at)
              /\ getRemaining(h.before[i], h.at) = 0
              /\ OrElse(h.before[i].offsetMs, 0) > 0
              /\ h.after[i].offsetMs = Some(0)
              /\ ~isRunning(h.before[j], h.at)
              /\ getRemaining(h.before[j], h.at) > 0
              /\ h.after[j].offsetMs = h.before[j].offsetMs

PauseThenStart(k) == fnHist[k].op = "pause" /\ fnHist[k + 1].op = "start"

\* elapsed at the instant the resumed timer starts = elapsed the Pause saw
RoundTripExact(k, i) ==
    getElapsed(fnHist[k + 1].after[i], fnHist[k + 1].at)
       = getElapsed(fnHist[k].before[i], fnHist[k].now)

PausedAs(b, at, now) ==
    [b EXCEPT !.pausedAt = Some(at), !.offsetMs = Some(getElapsed(b, now)),
              !.startAt = None]

\* C9 (amended): Pause sets, for every timer of the list, pausedAt = the clock
\* Pause read when it was pressed, startAt = unset and offsetMs = elapsed of
\* the timer's state before the Pause at the clock the updater reads once the
\* store read has resolved; nothing else changes, no timer is added or removed.
C9_PauseBanksElapsed ==
    \A k \in HistIdx :
        LET h == fnHist[k] IN
        h.op = "pause" =>
           /\ SameLength(h)
           /\ \A i \in 1..Len(h.before) :
                 h.after[i] = PausedAs(h.before[i], h.at, h.now)

\* C9 as stated: one now serves for pausedAt and for elapsed.
C9_Original ==
    \A k \in HistIdx :
        LET h == fnHist[k] IN
        h.op = "pause" =>
           /\ SameLength(h)
           /\ \E now \in {h.at, h.now} :
                 \A i \in 1..Len(h.before) :
                     h.after[i] = PausedAs(h.before[i], now, now)

\* a burning timer was paused by a call whose store read took time
C9_Witness ==
    \E k \in HistIdx :
        LET h == fnHist[k] IN
        /\ h.op = "pause"
        /\ h.now > h.at
        /\ Len(h.before) = 2
        /\ \E i \in 1..Len(h.before) : isRunning(h.before[i], h.now)

CreatedBy(h, ownerName) ==
    LET t == h.after[Len(h.after)] IN
    /\ Len(h.after) = Len(h.before) + 1
    /\ SubSeq(h.after, 1, Len(h.before)) = h.before
    /\ t.offsetMs = Some(0)
    /\ t.startAt = Some(h.now)
    /\ t.pausedAt = None
    /\ t.ownerId = h.client
    /\ t.ownerName = ownerName

\* C10 (amended): Create appends exactly one timer with offsetMs = 0,
\* startAt = now, pausedAt unset, the acting participant's ownerId and the
\* participant's name as ownerName, or "Player" when that name is empty; the
\* timers already in the list are unchanged and in the same order.
C10_CreateAppends ==
    \A k \in HistIdx :
        LET h == fnHist[k] IN
        h.op = "set" =>
           CreatedBy(h, IF PlayerName[h.client] = "" THEN "Player"
                        ELSE PlayerName[h.client])

\* C10 as stated: ownerName is the acting participant's name.
C10_Original ==
    \A k \in HistIdx :
        LET h == fnHist[k] IN
        h.op = "set" => CreatedBy(h, PlayerName[h.client])

\* a named and a nameless participant have each added a timer to a list
C10_Witness ==
    /\ \E k \in HistIdx :
          /\ fnHist[k].op = "set"
          /\ Len(fnHist[k].before) >= 1
          /\ PlayerName[fnHist[k].client] = ""
    /\ \E k \in HistIdx :
          /\ fnHist[k].op = "set"
          /\ PlayerName[fnHist[k].client] # ""

\* C11: Delete(id) removes from the room list exactly the timers whose id
\* equals the given id and leaves every other timer unchanged and in place;
\* when no timer has that id the list content is unchanged.
C11_DeleteRemovesMatching ==
    \A k \in HistIdx :
        LET h == fnHist[k]
            kept == {i \in 1..Len(h.before) : h.before[i].id # h.torchId}
        IN  h.op = "delete" =>
               /\ Len(h.after) = Cardinality(kept)
               /\ \A j \in 1..Len(h.after) :
                     /\ h.after[j].id # h.torchId
                     /\ \E i \in kept :
                           /\ h.after[j] = h.before[i]
                           /\ Cardinality({x \in kept : x < i}) = j - 1
               /\ (kept = 1..Len(h.before) => h.after = h.before)

\* one Delete has removed the first of two timers, another has named an id
\* no timer has
C11_Witness ==
    /\ \E k \in HistIdx :
          /\ fnHist[k].op = "delete"
          /\ Len(fnHist[k].before) = 2
          /\ fnHist[k].before[1].id = fnHist[k].torchId
          /\ fnHist[k].after = <<fnHist[k].before[2]>>
    /\ \E k \in HistIdx :
          /\ fnHist[k].op = "delete"
          /\ Len(fnHist[k].before) >= 1
          /\ \A i \in 1..Len(fnHist[k].before) :
                fnHist[k].before[i].id # fnHist[k].torchId

----------------------------------------------------------------------------
(* Claims about the life of a timer in the room list *)

Fired(id) == \E e \in fireLog : e.torch.id = id
Stored(id) == \E i \in 1..Len(store) : store[i].id = id

\* the deletion a firing detector has queued for the timer is in flight
CascadePending(id) ==
    \E i \in 1..Len(writes) : writes[i].op = "expire" /\ writes[i].torchId = id

\* no participant has a write in flight or can start one: from here on only
\* the detectors' own deletions write the room list
NobodyWrites ==
    /\ opCount = MaxOps
    /\ \A i \in 1..Len(writes) : writes[i].op = "expire"

\* C12: every timer for which a client's detector fires is eventually absent
\* from the room list, and stays absent, provided the store writes complete
\* and nobody re-creates it, also when several timers cross zero on the same
\* tick and when several clients detect the same crossing.
C12_FiredTimerIsRemoved ==
    \A id \in {newId(0), newId(1)} :
        [](Fired(id) /\ CascadePending(id) /\ NobodyWrites => <>[]~Stored(id))

----------------------------------------------------------------------------
(* Claims about the room list as a whole *)

Linked(img) == {i \in 1..Len(store) : store[i].lightId = img}

\* C13: in every reachable state the room list holds at most one timer per
\* non-empty lightId, however often the watcher fires for the image and
\* whichever clients run it, one after the other or at the same time.
C13_OneTimerPerLight ==
    \A i, j \in 1..Len(store) :
        store[i].lightId # "" /\ store[i].lightId = store[j].lightId => i = j

\* both clients' ensureTimerForImage calls for the image have returned, next
\* to a timer set by hand, and the image has its timer
C13_Witness ==
    /\ \A c \in Clients : "img1" \in lastMeta[c]
    /\ Len(store) = 2
    /\ store[1].lightId = ""
    /\ Cardinality(Linked("img1")) = 1

\* C14: no two timers of the room list have the same id, after any sequence
\* of Create, creation by the watcher, Start, Pause, Delete and auto-deletion
\* by the clients, newId() never returning an id twice.
C14_IdsUnique ==
    \A i, j \in 1..Len(store) : store[i].id = store[j].id => i = j

\* a timer created by Set or by the watcher stands next to an older one
C14_Witness ==
    /\ Len(store) >= 2
    /\ store[1].id = newId(0)
    /\ \/ "set" \in invoked
       \/ store[2].lightId = "img1"

\* what the minutes and seconds inputs may hold
AnyMinutes == {0 - 1, 0, 1, 2}
AnySeconds == {0 - 1, 0, 1, 59, 60, 75}

----------------------------------------------------------------------------
(* Claims about what is stored and what is read back *)

\* lists an updater could hand back: ids and owner labels present, empty or
\* undefined
UpdaterResults ==
    LET recs == {[fnTimer("x", None, None, Some(0)) EXCEPT
                     !.id = id, !.ownerName = own] :
                 id \in {"", NoString, newId(5)}, own \in {"", NoString, "Bea"}}
    IN  {<<r>> : r \in recs} \cup {<<r, r>> : r \in recs}

Persistable(list) ==
    \A i \in 1..Len(list) :
        StrTruthy(list[i].id) /\ StrTruthy(list[i].ownerName)

\* out is raw with the missing ids and owner labels filled in, nothing else
Labelled(raw, out) ==
    /\ Len(out) = Len(raw)
    /\ \A i \in 1..Len(raw) :
          /\ out[i].ownerName = IF StrTruthy(raw[i].ownerName)
                                THEN raw[i].ownerName ELSE "Player"
          /\ StrTruthy(raw[i].id) => out[i].id = raw[i].id
          /\ [out[i] EXCEPT !.id = "", !.ownerName = ""]
                = [raw[i] EXCEPT !.id = "", !.ownerName = ""]

\* C15: whatever list the updater returns, every record writeRoomTimers
\* persists has a non-empty id and a non-empty ownerName, an empty owner label
\* being stored as "Player"; and the stored blob changes only by a completed
\* call, which replaces it by the whole normalised list.
C15_PersistedRecordsLabelled ==
    /\ [](\A k \in HistIdx : Persistable(fnHist[k].after))
    /\ [](\A raw \in UpdaterResults :
            LET out == writeRoomTimers(raw, nextId).list
            IN  Persistable(out) /\ Labelled(raw, out))
    /\ [][fnList' # fnList =>
            /\ Len(fnHist') = Len(fnHist) + 1
            /\ fnList' = fnHist'[Len(fnHist')].after]_vars

\* a participant whose name is empty has pressed Set: the new record is
\* stored under "Player"
C15_Witness ==
    \E k \in HistIdx :
        /\ fnHist[k].op = "set"
        /\ PlayerName[fnHist[k].client] = ""
        /\ fnHist[k].after[Len(fnHist[k].after)].ownerName = "Player"

\* the records of a stored value, and whether a path accepts the value
recordsOf(raw) == IF raw.type = "array" THEN raw.items ELSE <<raw>>
Accepts(path, raw) ==
    IF path = "room" THEN isRoomTimerArray(raw)
    ELSE (isTorchArray(raw) /\ Len(raw.items) > 0) \/ isTorchState(raw)
AllHaveIds(raw) ==
    \A i \in 1..Len(recordsOf(raw)) : StrTruthy(strOf(recordsOf(raw)[i].id))
idsOf(list) == [i \in 1..Len(list) |-> list[i].id]

\* C17: reading a stored list in which every record has an id returns the
\* records under those very ids, so two reads of the same unmodified data
\* return the same id for every record.
C17_ReadKeepsIds ==
    \A k \in HistIdx :
        Accepts(fnHist[k].path, fnList) /\ AllHaveIds(fnList) =>
            /\ idsOf(fnHist[k].result) = idsOf(typedItems(JArray(recordsOf(fnList))))
            /\ \A l \in HistIdx :
                  fnHist[l].path = fnHist[k].path =>
                      idsOf(fnHist[l].result) = idsOf(fnHist[k].result)

\* a list of two records with ids has been read three times, twice of them
\* the same way
C17_Witness ==
    /\ Len(fnHist) = 3
    /\ fnHist[1].path # fnHist[2].path
    /\ fnHist[2].path = fnHist[3].path
    /\ Accepts(fnHist[2].path, fnList)
    /\ AllHaveIds(fnList)
    /\ Len(fnHist[3].result) = 2

\* the stored values that are no list and no record of timers: durationMs a
\* string or absent, in a record or in a record of a list, a null, a string,
\* nothing at all
Malformed(raw) ==
    raw \in {badTimer, noDuration, JArray(<<badTimer>>),
             JArray(<<goodTimer("a1"), noDuration>>), JArray(<<JNull>>),
             JNull, JUndef, JStr("bad")}

\* the empty list, or one timer of one hour that was never started
SafeDefault(path, result) ==
    IF path = "room" THEN result = <<>>
    ELSE /\ Len(result) = 1
         /\ StrTruthy(result[1].id)
         /\ [result[1] EXCEPT !.id = NoString] = DEFAULT
         /\ DEFAULT.durationMs = 3600 * MsPerSecond

\* C18: reading a malformed stored value returns the safe default: the empty
\* list on the room-wide path, one one-hour timer on the per-player path;
\* every read of the same malformed value returns it, the per-player timer
\* under the id newId() gave it at that read.
C18_MalformedYieldsDefault ==
    \A k \in HistIdx :
        Malformed(fnList) =>
            SafeDefault(fnHist[k].path, fnHist[k].result)

\* C18 as stated: two reads of the same malformed value give the same result
C18_Original ==
    \A k, l \in HistIdx :
        /\ Malformed(fnList)
        /\ fnHist[l].path = fnHist[k].path
        => /\ SafeDefault(fnHist[k].path, fnHist[k].result)
           /\ fnHist[l].result = fnHist[k].result

\* a record whose durationMs is a string has been read twice on the
\* per-player path and once on the room-wide path
C18_Witness ==
    /\ fnList = badTimer
    /\ Len(fnHist) = 3
    /\ \E k \in HistIdx : fnHist[k].path = "room"
    /\ \E k, l \in HistIdx : k # l /\ fnHist[k].path = "slot" /\ fnHist[l].path = "slot"

----------------------------------------------------------------------------
(* Claims about what a timer shows *)

\* C19: isRunning(timer, now) is true exactly when startAt is set, pausedAt is
\* unset and the remaining time is above 0, whatever timestamps startAt and
\* pausedAt hold, 0 included; no timer with nothing remaining is running.
C19_RunningIffStartedUnpausedAndLeft ==
    \A i \in 1..Len(fnList) : \A now \in ProbeNows \cup {fnNow} :
        LET t == fnList[i]
        IN  /\ isRunning(t, now) <=>
                  t.startAt # None /\ t.pausedAt = None /\ getRemaining(t, now) > 0
            /\ getRemaining(t, now) = 0 => ~isRunning(t, now)

digitValue(c) == CHOOSE d \in 0..9 : DigitChars[d + 1] = c
IsDigit(c) == \E d \in 0..9 : DigitChars[d + 1] = c

RECURSIVE numberOf(_)
\* the number a sequence of digits writes
numberOf(str) ==
    IF Len(str) = 0 THEN 0
    ELSE 10 * numberOf(SubSeq(str, 1, Len(str) - 1)) + digitValue(str[Len(str)])

\* text reads M:SS for total seconds: minutes without padding, a colon, two
\* digits of seconds below 60
ReadsAs(text, total) ==
    LET n == Len(text)
        mins == SubSeq(text, 1, n - 3)
        secs == SubSeq(text, n - 1, n)
    IN  /\ n >= 4
        /\ text[n - 2] = ":"
        /\ \A i \in 1..n : i # n - 2 => IsDigit(text[i])
        /\ Len(mins) > 1 => mins[1] # "0"
        /\ numberOf(secs) \in 0..59
        /\ numberOf(mins) = total \div 60
        /\ numberOf(secs) = total % 60

\* C20: for ms >= 0, format(ms) shows the least whole number of seconds not
\* below ms/1000 as M:SS, minutes unpadded and seconds in two digits 00..59;
\* it is "0:00" exactly for ms = 0; format(599) = "0:01", format(61000) =
\* "1:01".
C20_FormatCeilsToSeconds ==
    \A k \in HistIdx :
        LET ms == fnHist[k].ms
            text == fnHist[k].text
            total == CHOOSE n \in 0..(ms \div MsPerSecond + 1) :
                        n * MsPerSecond >= ms /\ (n - 1) * MsPerSecond < ms
        IN  /\ ReadsAs(text, total)
            /\ text = <<"0", ":", "0", "0">> <=> ms = 0
            /\ ms = 599 => text = <<"0", ":", "0", "1">>
            /\ ms = 61000 => text = <<"1", ":", "0", "1">>

\* 61 s and one millisecond have been rendered as 1:02
C20_Witness ==
    \E k \in HistIdx :
        fnHist[k].ms = 61001 /\ fnHist[k].text = <<"1", ":", "0", "2">>

----------------------------------------------------------------------------
(* Claims about writers racing on the store *)

\* C21: within one client the halves of two writeRoomTimers calls never
\* interleave: no client has two calls of its own that have both read the
\* blob and not yet written it, whether buttons, the watcher or the
\* detector's auto-deletion issued them.
C21_OwnWritesSerialized ==
    \A i, j \in 1..Len(writes) :
        /\ writes[i].client = writes[j].client
        /\ writes[i].phase = "write"
        /\ writes[j].phase = "write"
        => i = j

\* C22: the store is last-writer-wins: a setMetadata installs the list its
\* call computed from its own read, whatever has been stored since, so of two
\* clients' calls that read the same list the first one's timer is gone once
\* the second has written.
C22_LastWriterWins ==
    [][\A i \in 1..Len(writes) :
          WriteCommit(i) =>
              /\ store' = writes[i].next
              /\ \A k \in 1..Len(store) :
                    store[k] \notin Range(writes[i].next) =>
                        store[k] \notin Range(store')]_vars

\* both clients' watchers read the empty list and appended a timer for the
\* image; both have written and one timer is left
C22_Witness ==
    /\ advances = 0
    /\ writes = <<>>
    /\ nextId = 2
    /\ Len(store) = 1
    /\ store[1].lightId = "img1"

----------------------------------------------------------------------------
(* Claims about a client's view *)

\* where timer t stands in rows rs
PlacesOf(rs, t) ==
    {pl \in (1..Len(rs)) \X (1..Len(IdPool)) :
        pl[2] <= Len(rs[pl[1]].torches) /\ rs[pl[1]].torches[pl[2]] = t}

\* rs is list cut into rows by owner: every timer of list stands in one place,
\* in the row keyed by its ownerId, or by its ownerName when it has no
\* ownerId; the rows hold nothing else and no two rows share a key
Partitions(rs, list) ==
    /\ \A i \in 1..Len(list) :
          /\ Cardinality(PlacesOf(rs, list[i])) = 1
          /\ \A pl \in PlacesOf(rs, list[i]) :
                rs[pl[1]].id = IF list[i].ownerId # NoString THEN list[i].ownerId
                               ELSE nameKey(list[i].ownerName)
    /\ \A r \in 1..Len(rs) : \A k \in 1..Len(rs[r].torches) :
          \E i \in 1..Len(list) : list[i] = rs[r].torches[k]
    /\ \A r, q \in 1..Len(rs) : rs[r].id = rs[q].id => r = q

\* C23: the rows a read produces are the stored list cut by owner (by ownerId,
\* or by the key of ownerName when ownerId is absent), every timer in exactly
\* one row and no timer from elsewhere; only such a read changes the rows,
\* neither a poll tick nor the detector does.
C23_RowsPartitionTheList ==
    [][\A c \in Clients :
          /\ dirty[c] /\ ~dirty'[c] => Partitions(rows'[c], store)
          /\ rows'[c] # rows[c] => dirty[c] /\ ~dirty'[c]]_vars

\* a client has read a list holding a participant's timer and a timer the
\* watcher made: two rows, one under the ownerId, one under the name key
C23_Witness ==
    \E c \in Clients :
        /\ ~dirty[c]
        /\ Len(rows[c]) = 2
        /\ Len(store) = 2
        /\ Partitions(rows[c], store)
        /\ \E r \in 1..2 : rows[c][r].id = "name:Player"

----------------------------------------------------------------------------
(* Claims about when the detector fires *)

DetectorRuns(c) == Tick(c) \/ Refresh(c)

\* what the run of client c's detector that ends in the primed state saw
VisitedBy(c) == flattenRows(rows'[c], 1)

\* remaining was above 0 at the last visit of the key and is not now, and the
\* timer is started and not paused; a key never visited has no last visit
Crossing(c, it) ==
    LET key == timerKey(it.pid, it.torch) IN
    /\ key \in DOMAIN prev[c]
    /\ prev[c][key] > 0
    /\ it.torch.durationMs - getElapsed(it.torch, clock) <= 0
    /\ it.torch.startAt # None
    /\ it.torch.startAt[1] # 0
    /\ \/ it.torch.pausedAt = None
       \/ it.torch.pausedAt[1] = 0

FiredNow(c, key) == CountOf(fireCount'[c], key) - CountOf(fireCount[c], key)

\* C24: on a run of its detector a client fires for a timer key exactly when
\* the remaining it recorded for the key on the previous visit is > 0, the
\* current remaining is <= 0 and the timer has startAt set and pausedAt unset;
\* a key visited for the first time has no previous value and never fires,
\* whatever the state of its timer.  (Firing is the detection of the
\* transition; whether a notification follows is decided by the event id.)
C24_FiresExactlyOnCrossing ==
    [][\A c \in Clients :
          DetectorRuns(c) =>
              \A i \in 1..Len(VisitedBy(c)) :
                  LET it == VisitedBy(c)[i] IN
                  FiredNow(c, timerKey(it.pid, it.torch)) =
                      IF Crossing(c, it) THEN 1 ELSE 0]_vars

\* one client has fired for a timer it watched burn out, and another, which
\* saw the timer for the first time when it had already expired, has not
C24_Witness ==
    \E c, d \in Clients : \E k \in DOMAIN prev[d] :
        /\ c # d
        /\ CountOf(fireCount[c], k) = 1
        /\ k \in sawBurning[c]
        /\ prev[d][k] = 0
        /\ k \notin sawBurning[d]
        /\ CountOf(fireCount[d], k) = 0

----------------------------------------------------------------------------
(* Claims about pausing twice *)

AlreadyPaused(t) == t.pausedAt # None /\ t.pausedAt[1] # 0

\* C25: Pause is idempotent on banked time: Pause applied to a timer that is
\* already paused, at whatever later time it is pressed and run, leaves the
\* timer's offsetMs, its elapsed and its remaining as they were.
C25_PauseKeepsBankedTime ==
    \A k \in HistIdx :
        LET h == fnHist[k] IN
        h.op = "pause" =>
           /\ SameLength(h)
           /\ \A i \in 1..Len(h.before) :
                 LET b == h.before[i]
                     a == h.after[i]
                 IN  AlreadyPaused(b) =>
                        /\ a.offsetMs = b.offsetMs
                        /\ \A tm \in ProbeNows \cup {h.at, h.now, fnNow} :
                              /\ getElapsed(a, tm) = getElapsed(b, tm)
                              /\ getRemaining(a, tm) = getRemaining(b, tm)

\* a burning timer was paused, which banked time, and paused again later
C25_Witness ==
    \E k \in PairIdx :
        /\ fnHist[k].op = "pause"
        /\ fnHist[k + 1].op = "pause"
        /\ fnHist[k + 1].at > fnHist[k].now
        /\ \E i \in 1..Len(fnHist[k].before) :
              /\ ~AlreadyPaused(fnHist[k].before[i])
              /\ OrElse(fnHist[k].after[i].offsetMs, 0)
                    > OrElse(fnHist[k].before[i].offsetMs, 0)
              /\ AlreadyPaused(fnHist[k + 1].before[i])
              /\ fnHist[k + 1].after[i].pausedAt # fnHist[k + 1].before[i].pausedAt
              /\ fnHist[k + 1].after[i].offsetMs = fnHist[k].after[i].offsetMs

----------------------------------------------------------------------------
(* Claims about reconciling a client's view with the store *)

RowTimers(rs) == {flattenRows(rs, 1)[i].torch : i \in 1..Len(flattenRows(rs, 1))}

\* client c has done the refresh of its mount and has never written: it is
\* not one of the acting participants and its detector has never fired
OnlyWatches(c) ==
    /\ rows[c] # <<>>
    /\ c \notin Actors
    /\ \A k \in DOMAIN fireCount[c] : fireCount[c][k] = 0

\* C26: after a store write by another client (its change notification is
\* still pending at client c), the next poll tick of c leaves c's rows holding
\* exactly the timers currently stored.
C26_TickReconcilesRows ==
    [][\A c \in Clients :
          (OnlyWatches(c) /\ dirty[c] /\ Tick(c)) =>
              RowTimers(rows'[c]) = Range(store')]_vars

----------------------------------------------------------------------------
(* Claims about the shape check of the room-wide list *)

\* the records of the wrong shape: durationMs a string or absent, or one of
\* the optional fields present with the wrong type
WronglyTyped(rec) ==
    rec \in {badTimer, noDuration}
             \cup {mistyped(f) : f \in NumberFields \cup StringFields}

ReturnedIds(k) == {fnHist[k].result[i].id : i \in 1..Len(fnHist[k].result)}

\* C27: reading the room-wide list never returns a record of a stored array
\* whose durationMs is not a number or whose startAt, pausedAt, offsetMs,
\* ownerId, name or lightId is present with the wrong type.
C27_MistypedNeverReturned ==
    \A k \in HistIdx :
        fnHist[k].path = "room" /\ fnList.type = "array" =>
            \A j \in 1..Len(fnList.items) :
                WronglyTyped(fnList.items[j]) =>
                    fnList.items[j].id.str \notin ReturnedIds(k)

\* a list holding a good record and one whose name is a number has been read
C27_Witness ==
    /\ fnList = JArray(<<goodTimer("a2"), mistyped("name")>>)
    /\ \E k \in HistIdx : fnHist[k].path = "room" /\ fnHist[k].result = <<>>

----------------------------------------------------------------------------
(* Claims about the shapes a read accepts *)

\* records both validators accept
ValidRecords == {goodTimer("a1"), goodTimer("a2")}

ListOfValid(raw) ==
    /\ raw.type = "array"
    /\ Len(raw.items) > 0
    /\ \A i \in 1..Len(raw.items) : raw.items[i] \in ValidRecords

\* C28: a read accepts both shapes of the stored value: a stored array of
\* valid records is returned as that list, and a single valid record that is
\* not wrapped in an array is returned as the one-element list holding it.
C28_AcceptsBothShapes ==
    \A k \in HistIdx :
        /\ ListOfValid(fnList) => fnHist[k].result = typedItems(fnList)
        /\ fnList \in ValidRecords => fnHist[k].result = <<typed(fnList)>>

\* the stored arrays in which a record has every field a reader asks for,
\* except an id
LacksId(rec) == rec \in {noId, legacyTimer(JUndef)}
OtherwiseValid(path, rec) ==
    IF path = "room" THEN rec = noId ELSE LacksId(rec)

\* C29: every otherwise valid stored record that lacks an id is kept by the
\* read and returned with a freshly generated id, different from the ids of
\* all other records of the list.
C29_IdlessRecordsKept ==
    \A k \in HistIdx :
        LET h == fnHist[k] IN
        fnList.type = "array" =>
            \A j \in 1..Len(fnList.items) :
                OtherwiseValid(h.path, fnList.items[j]) =>
                    /\ Len(h.result) = Len(fnList.items)
                    /\ StrTruthy(h.result[j].id)
                    /\ [h.result[j] EXCEPT !.id = NoString] = typed(fnList.items[j])
                    /\ \A i \in 1..Len(h.result) :
                          i # j => h.result[i].id # h.result[j].id

----------------------------------------------------------------------------
(* Claims about the banked time of a timer *)

\* C30: elapsed treats a missing offsetMs and a negative offsetMs as 0: for
\* every timer whose offsetMs is absent or below 0, elapsed is now - startAt
\* while the timer is started and not paused, and 0 otherwise.
C30_NoNegativeBankedTime ==
    \A i \in 1..Len(fnList) : \A now \in ProbeNows \cup {fnNow} :
        LET t == fnList[i] IN
        (t.offsetMs = None \/ t.offsetMs[1] < 0) =>
            getElapsed(t, now) =
                IF IsTruthy(t.startAt) /\ ~IsTruthy(t.pausedAt)
                THEN now - t.startAt[1] ELSE 0

----------------------------------------------------------------------------
(* Claims about failures *)

\* C31: when a timer linked to an image has fired, the attempt to clear the
\* image's flag never ends the cascade: whether updateItems succeeded or was
\* rejected (the failure is swallowed), the call that deletes the timer from
\* the room list is issued next.
C31_DeletionFollowsFailedUnflag ==
    [][\A i \in 1..Len(writes) :
          writes[i].phase = "unflag" =>
              \/ writes[i] \in Range(writes')
              \/ /\ [writes[i] EXCEPT !.phase = "read"] \in Range(writes')
                 /\ writes[i].op = "expire"]_vars

\* nobody has touched the scene or the list by hand; the timer of the lit
\* image has fired, clearing the flag failed (the image is still flagged) and
\* the deletion has gone through
C31_Witness ==
    /\ opCount = 0
    /\ flagged = {"img1"}
    /\ \E e \in fireLog : e.torch.lightId = "img1"
    /\ store = <<>>
    /\ writes = <<>>

\* C32: a writeRoomTimers call whose store read or store write fails leaves
\* the stored list as it was (nothing of the new list is persisted), and the
\* client's interval and listeners stay in place: what was pending for them
\* is still pending, and the other calls in flight go on.
C32_FailedWriteChangesNothing ==
    [][\A i \in 1..Len(writes) :
          WriteFails(i) =>
              /\ store' = store
              /\ mounted' = mounted
              /\ dirty' = dirty
              /\ sceneEvents' = sceneEvents
              /\ inbox' = inbox
              /\ \A j \in 1..Len(writes) : j # i => writes[j] \in Range(writes')]_vars

\* Pause was pressed and its call is over, yet the stored timer still burns:
\* the call failed; the client's detector has run over the timer since
C32_Witness ==
    /\ "pause" \in invoked
    /\ writes = <<>>
    /\ store = <<burningTimer>>
    /\ clock > T0
    /\ \E c \in mounted :
          /\ ~dirty[c]
          /\ <<"p2", burningTimer.id>> \in DOMAIN prev[c]
          /\ prev[c][<<"p2", burningTimer.id>>] = 0

----------------------------------------------------------------------------
(* Claims about the scene watcher *)

\* on this step the watcher of client c calls ensureTimerForImage(img)
Ensures(c, img) ==
    /\ Len(writes') = Len(writes) + 1
    /\ writes'[Len(writes')].op = "ensure"
    /\ writes'[Len(writes')].client = c
    /\ writes'[Len(writes')].imageId = img

\* C33: the watcher runs ensureTimerForImage for an image only on a snapshot
\* on which the marker is present and was absent from the metadata recorded
\* for the image; an image that carried the marker on the snapshot before and
\* still carries it on this one triggers nothing.
C33_EnsureOnlyWhenMarkerAppears ==
    [][\A c \in Clients : \A img \in Images :
          Ensures(c, img) =>
              /\ img \in Head(sceneEvents[c])
              /\ img \notin lastMeta[c]
              /\ lastItems[c] # <<>> => img \notin lastItems[c][1]]_vars

----------------------------------------------------------------------------
(* Claims about teardown *)

CallsOf(ws, c) == Cardinality({i \in 1..Len(ws) : ws[i].client = c})

\* C34: on teardown the interval and every listener of the client go
\* together: from the step that unmounts it on, no tick, no refresh, no
\* broadcast handler and no scene handler of that client runs, so its rows,
\* its detector's memory, its handled ids and notifications stay as they are,
\* no pending scene callback of it is taken up and it starts no new
\* writeRoomTimers call; a client once unmounted stays so.
C34_TeardownStopsEverything ==
    [][\A c \in Clients \ mounted :
          /\ c \notin mounted'
          /\ rows'[c] = rows[c]
          /\ prev'[c] = prev[c]
          /\ fireCount'[c] = fireCount[c]
          /\ handled'[c] = handled[c]
          /\ shown'[c] = shown[c]
          /\ lastItems'[c] = lastItems[c]
          /\ Len(sceneEvents'[c]) >= Len(sceneEvents[c])
          /\ CallsOf(writes', c) <= CallsOf(writes, c)]_vars

\* the polling client has been unmounted while a timer it had seen burning
\* was running out: the timer has reached 0 since and no tick has looked
C34_Witness ==
    /\ "p1" \notin mounted
    /\ \E i \in 1..Len(flattenRows(rows["p1"], 1)) :
          LET it == flattenRows(rows["p1"], 1)[i]
              key == timerKey(it.pid, it.torch)
          IN  /\ key \in DOMAIN prev["p1"]
              /\ prev["p1"][key] > 0
              /\ getRemaining(it.torch, clock) = 0
              /\ CountOf(fireCount["p1"], key) = 0

----------------------------------------------------------------------------
(* Claims about the automatic deletion racing with the buttons *)

\* the timers the commit of call i takes out of the stored list
RemovedBy(i) ==
    {store[k] : k \in {k \in 1..Len(store) : store[k] \notin Range(writes[i].next)}}

\* t, as stored, is the burn some detector of the deleting client fired for
FiredBurn(c, t) ==
    \E e \in fireLog :
        /\ e.client = c
        /\ e.torch.id = t.id
        /\ e.torch.durationMs = t.durationMs
        /\ e.torch.startAt = t.startAt
        /\ e.torch.offsetMs = t.offsetMs
        /\ e.torch.pausedAt = t.pausedAt

\* C35: the automatic deletion removes only timers that are expired in the
\* store: when the deletion write issued after a fired transition takes a
\* timer out of the list, the timer as stored at that moment has remaining 0
\* and is the burn that fired, not restarted, resumed or paused since.
C35_AutoDeletionRemovesOnlyExpired ==
    [][\A i \in 1..Len(writes) :
          writes[i].op = "expire" /\ WriteCommit(i) =>
              \A t \in RemovedBy(i) :
                  /\ getRemaining(t, clock) = 0
                  /\ FiredBurn(writes[i].client, t)]_vars

\* on this step client c shows the notification of a transition its own
\* detector has found: e is the firing
NotifiesLocally(c, e) ==
    /\ DetectorRuns(c)
    /\ e \in fireLog'
    /\ e.client = c
    /\ CountOf(shown'[c], e.id) > CountOf(shown[c], e.id)

\* C36: a client never shows a "diminished" notification from local
\* detection for a timer that, in the list stored at that moment, is paused
\* or still has time left: its rows are never so stale that the detector
\* fires for a burn the store no longer holds.
C36_NoNotificationFromStaleRows ==
    [][\A c \in Clients : \A e \in fireLog' :
          NotifiesLocally(c, e) =>
              \A k \in 1..Len(store) :
                  store[k].id = e.torch.id =>
                      /\ ~IsTruthy(store[k].pausedAt)
                      /\ getRemaining(store[k], clock) = 0]_vars

----------------------------------------------------------------------------
(* Claims about writing over a malformed list *)

\* the elements the room-wide shape check turns down: a field of the wrong
\* type, no durationMs, no id, no ownerName, a null
FailsShapeCheck(rec) ==
    \/ WronglyTyped(rec)
    \/ rec \in {noId, legacyTimer(JStr("a1")), legacyTimer(JStr("a2")),
                legacyTimer(JUndef), JNull}

HasMalformed(raw) ==
    /\ raw.type = "array"
    /\ \E j \in 1..Len(raw.items) : FailsShapeCheck(raw.items[j])

StoredIds(raw) == {raw.items[j].id : j \in 1..Len(raw.items)}

\* C37: when the stored value is an array in which at least one element
\* fails the shape check, readRoomTimers returns the empty list, so the
\* writeRoomTimers call that follows stores updater([]) and nothing else:
\* every well-typed timer that stood next to the malformed one is gone.
C37_MalformedElementEmptiesTheList ==
    \A k \in HistIdx :
        LET h == fnHist[k] IN
        /\ h.path = "room" /\ HasMalformed(fnList) => h.result = <<>>
        /\ h.path = "write" /\ HasMalformed(h.before) =>
              /\ h.result = <<>>
              /\ Len(h.after.items) = IF h.op = "set" THEN 1 ELSE 0
              /\ \A j \in 1..Len(h.before.items) :
                    h.before.items[j] \in ValidRecords =>
                        h.before.items[j].id \notin StoredIds(h.after)

\* Pause was pressed over a list of a good timer and one whose name is a
\* number: the list stored afterwards is empty
C37_Witness ==
    \E k \in HistIdx :
        /\ fnHist[k].path = "write"
        /\ fnHist[k].op = "pause"
        /\ fnHist[k].before = JArray(<<goodTimer("a2"), mistyped("name")>>)
        /\ fnHist[k].after = JArray(<<>>)

----------------------------------------------------------------------------
(* Claims about the list after Start and after Pause *)

LaterNows(h) == {tm \in ProbeNows \cup {h.now, fnNow} : tm >= h.now}

\* after a Pause no timer runs, and remaining does not move with the clock
PausedForGood(h) ==
    \A i \in 1..Len(h.after) : \A tm \in LaterNows(h) :
        /\ ~isRunning(h.after[i], tm)
        /\ getRemaining(h.after[i], tm) = getRemaining(h.after[i], h.now)

\* C38 (amended): after a Start write every timer of the stored list is
\* running (isRunning true) as of the clock Start read when it was pressed,
\* and at the clock of the write unless its remaining time ran out while the
\* call was waiting for the store; after a Pause write no timer of the stored
\* list is running and the remaining of every timer stays constant as time
\* advances.
C38_RunningAfterStartStillAfterPause ==
    \A k \in HistIdx :
        LET h == fnHist[k] IN
        /\ h.op = "start" =>
              \A i \in 1..Len(h.after) :
                  /\ isRunning(h.after[i], h.at)
                  /\ isRunning(h.after[i], h.now)
                        <=> getRemaining(h.after[i], h.now) > 0
        /\ h.op = "pause" => PausedForGood(h)

\* C38 as stated: every timer is running at the moment of the Start write.
C38_Original ==
    \A k \in HistIdx :
        LET h == fnHist[k] IN
        /\ h.op = "start" =>
              \A i \in 1..Len(h.after) : isRunning(h.after[i], h.now)
        /\ h.op = "pause" => PausedForGood(h)

\* a list with a burning timer was paused and later started again, the Start
\* waiting for the store for a while; time has passed since
C38_Witness ==
    \E k \in PairIdx :
        /\ fnHist[k].op = "pause"
        /\ fnHist[k + 1].op = "start"
        /\ fnHist[k + 1].now > fnHist[k + 1].at
        /\ \E i \in 1..Len(fnHist[k].before) :
              /\ isRunning(fnHist[k].before[i], fnHist[k].now)
              /\ ~isRunning(fnHist[k].after[i], fnHist[k + 1].at)
              /\ isRunning(fnHist[k + 1].after[i], fnHist[k + 1].now)

----------------------------------------------------------------------------
(* The room from its first timer on: timers are created by hand and by the  *)
(* scene watcher, started and paused, under the one clock.                  *)

MaxReachOps == 3
ReachInputs == {<<0, 3, "">>}       \* minutes, seconds, name of inputsRef
ReachCreators == {"p1"}          \* who presses Set and Start
ReachPausers == {"p2"}           \* who presses Pause

ReachInit ==
    /\ Mounted
    /\ SceneIdle
    /\ FnIdle
    /\ store = <<>>
    /\ nextId = 0

ReachCanInvoke == opCount < MaxReachOps

ReachInvoke(w) ==
    /\ ReachCanInvoke
    /\ w.client \in mounted
    /\ opCount' = opCount + 1
    /\ writes' = Append(writes, w)
    /\ invoked' = invoked \cup {w.op}
    /\ UNCHANGED <<clock, store, nextId, advances, dirty, rows, prev, handled,
                   inbox, shown, fireCount, zeroSince, fireLog, quiet,
                   sawBurning, mounted, fnVars, sceneVars>>

ReachStart(c) == ReachInvoke(WriteOp(c, "start", clock, "", 0, 0, ""))
ReachPause(c) == ReachInvoke(WriteOp(c, "pause", clock, "", 0, 0, ""))
ReachSet(c, mins, secs, name) ==
    ReachInvoke(WriteOp(c, "set", clock, "", mins, secs, name))

ReachNext ==
    \/ \E c \in ReachCreators : ReachStart(c)
    \/ \E c \in ReachPausers : ReachPause(c)
    \/ \E c \in ReachCreators, in \in ReachInputs : ReachSet(c, in[1], in[2], in[3])
    \/ \E img \in Images : ReachCanInvoke /\ AddLight(img)
    \/ \E c \in Clients, img \in Images, in \in ReachInputs : onChange(c, img, in)
    \/ \E i \in 1..Len(writes) : WriteRead(i)
    \/ \E i \in 1..Len(writes) : WriteCommit(i)
    \/ \E d \in Steps : Advance(d)

SpecReach == ReachInit /\ [][ReachNext]_vars

----------------------------------------------------------------------------
(* Claims about the records the buttons and the watcher leave in the store *)

\* the clock now and at the ticks to come
ClockAhead == {clock + k * TickMs : k \in 0..3}

\* C39: every timer the room list holds after Create, the watcher's creation,
\* Start and Pause under one non-decreasing clock has offsetMs >= 0 and, now
\* and at every later clock value, a remaining of at most durationMs that does
\* not grow as the clock advances.
C39_BankedTimeAndRemainingBounded ==
    \A i \in 1..Len(store) :
        LET t == store[i] IN
        /\ OrElse(t.offsetMs, 0) >= 0
        /\ \A tm \in ClockAhead :
              /\ getRemaining(t, tm) <= t.durationMs
              /\ getRemaining(t, tm + TickMs) <= getRemaining(t, tm)

\* a timer that burned, was paused with time banked and burns again, with
\* less than its duration left
C39_Witness ==
    /\ {"start", "pause"} \subseteq invoked
    /\ \E i \in 1..Len(store) :
          /\ OrElse(store[i].offsetMs, 0) > 0
          /\ isRunning(store[i], clock)
          /\ clock > store[i].startAt[1]
          /\ getRemaining(store[i], clock) < store[i].durationMs

----------------------------------------------------------------------------
(* Claims about the removal of a light *)

\* out is list without the timers of the image, the others as they were and
\* in their order
WithoutImage(list, out, img) ==
    LET keptAt == {k \in 1..Len(list) : list[k].lightId # img}
    IN  /\ Len(out) = Cardinality(keptAt)
        /\ \A k \in 1..Len(list) :
              list[k].lightId = img => list[k] \notin Range(out)
        /\ \A k \in keptAt : list[k] \in Range(out)
        /\ \A a, b \in 1..Len(out) :
              a < b => \E x, y \in keptAt :
                          x < y /\ list[x] = out[a] /\ list[y] = out[b]

\* C40: the write the watcher makes when the light marker leaves an image
\* takes out of the room list it read exactly the timers whose lightId is
\* that image's id; every other timer, those made by hand (lightId "")
\* included, is stored as it was.
C40_RemovalTakesOnlyTheImagesTimers ==
    [][\A i \in 1..Len(writes) :
          writes[i].op = "remove" /\ WriteRead(i) =>
              WithoutImage(store, writes'[i].next, writes[i].imageId)]_vars

\* the light has been taken off img1: of a hand-made timer, a timer of
\* another image and img1's timer the write is about to store the first two
C40_Witness ==
    /\ flagged = {}
    /\ store = <<burningTimer, orphanTimer, secondLitTimer>>
    /\ \E i \in 1..Len(writes) :
          /\ writes[i].op = "remove"
          /\ writes[i].imageId = "img1"
          /\ writes[i].phase = "write"
          /\ writes[i].next = <<burningTimer, orphanTimer>>

====
